---- MODULE Spec2Model ----
(***************************************************************************)
(* Model of the efmrl3 command-line client: the authenticated transport    *)
(* (APIClient, uploadFile, deleteFile), the reconciliation planner         *)
(* (computeSyncPlan) and the plan executor (executeSyncPlan, SyncCmd.Run). *)
(*                                                                         *)
(* The specifications share the variables:                                 *)
(*   SpecClient  one APIClient instance receiving any sequence of calls    *)
(*   SpecPlan    computeSyncPlan applied to bounded manifests              *)
(*   SpecQuota   validateQuota applied to a manifest and a quota document  *)
(*   SpecRetry   SyncCmd.Run run again after it has returned               *)
(*   SpecScan    scanLocalFiles applied to a directory tree                *)
(*   Spec        one run of SyncCmd.Run against a remote object store      *)
(***************************************************************************)
EXTENDS Integers, Sequences, FiniteSets, TLC

(***************************************************************************)
(* Bounds and enumerated inputs                                            *)
(***************************************************************************)
\* the host of the client under study (APIClient.host) and another host
ClientHost == "h1"

OtherHost == "h2"

Hosts == {ClientHost, OtherHost}

\* token strings; "" is the empty (omitted) token
AccessTokens == {"", "a1", "a2"}

RefreshTokens == {"", "r1", "r2"}

\* the identity providers a login or a refresh talks to
Providers == {"google", "workos"}

\* outcome of one HTTP exchange: 0 is a transport error (no response)
NetErr == 0

HttpOutcomes == {NetErr, 200, 401, 500}

Methods == {"GET", "POST", "PATCH", "DELETE"}

\* outcome of SaveGlobalConfig: written, failed before the file was opened
\* (file untouched), failed after O_TRUNC with an empty or a partial file
SaveOutcomes == {"ok", "fail_open", "fail_trunc", "fail_partial"}

(***************************************************************************)
(* Credential store (globalconfig.go)                                      *)
(***************************************************************************)
HostCredentials == [AccessToken : AccessTokens, RefreshToken : RefreshTokens]

Cred(a, r) == [AccessToken |-> a, RefreshToken |-> r]

\* a GlobalConfig.Hosts map: a function from a subset of the hosts
EmptyHosts == [h \in {} |-> Cred("", "")]

\* the keys a [host.<name>] table of the credentials file can hold
TomlKeys == {"access_token", "refresh_token"}

\* the field of HostCredentials a key is bound to
FieldOf(key) ==
    CASE key = "access_token" -> "AccessToken"
      [] key = "refresh_token" -> "RefreshToken"

\* the encoder drops a key whose string is empty (omitempty): the table of
\* an entry holds the keys of its non-empty fields
EncodeCreds(creds) ==
    [key \in {k \in TomlKeys : creds[FieldOf(k)] # ""} |-> creds[FieldOf(key)]]

\* the decoder leaves the field of an absent key at its zero value and
\* binds a key of the table that is none of TomlKeys to no field
DecodeCreds(table) ==
    LET field(key) == IF key \in DOMAIN table THEN table[key] ELSE ""
    IN  Cred(field("access_token"), field("refresh_token"))

\* an encoder that writes no table for an entry whose fields are all empty
FileOf_DropEmptyEntries(hosts) ==
    [exists |-> TRUE, ok |-> TRUE,
     tables |-> [h \in {x \in DOMAIN hosts : DOMAIN EncodeCreds(hosts[x]) # {}}
                    |-> EncodeCreds(hosts[h])]]

\* the credentials file: absent, parseable with one table per host, or
\* unparseable
FileOf(hosts) ==
    [exists |-> TRUE, ok |-> TRUE,
     tables |-> [h \in DOMAIN hosts |-> EncodeCreds(hosts[h])]]

CorruptFile == [exists |-> TRUE, ok |-> FALSE, tables |-> <<>>]

NoFile == [exists |-> FALSE, ok |-> FALSE, tables |-> <<>>]

\* LoadGlobalConfig: a missing or empty file gives an empty map, an
\* unparseable one an error
LoadGlobalConfig(file) ==
    IF ~file.exists THEN [err |-> "", Hosts |-> EmptyHosts]
    ELSE IF file.ok
    THEN [err |-> "", Hosts |-> [h \in DOMAIN file.tables |-> DecodeCreds(file.tables[h])]]
    ELSE [err |-> "error parsing", Hosts |-> EmptyHosts]

\* GlobalConfig.GetHostCredentials: (creds, ok)
GetHostCredentials(hosts, host) ==
    IF host \in DOMAIN hosts THEN [creds |-> hosts[host], ok |-> TRUE]
    ELSE [creds |-> Cred("", ""), ok |-> FALSE]

\* GlobalConfig.SetHostCredentials: gc.Hosts[host] = creds
SetHostCredentials(hosts, host, creds) ==
    [h \in DOMAIN hosts \cup {host} |-> IF h = host THEN creds ELSE hosts[h]]

\* every entry removed instead of the host's
DeleteHostCredentials_All(hosts, host) == EmptyHosts

\* GlobalConfig.DeleteHostCredentials: delete(gc.Hosts, host)
DeleteHostCredentials(hosts, host) ==
    [h \in DOMAIN hosts \ {host} |-> hosts[h]]

\* SaveGlobalConfig: the file after the call and the error it returns
SaveGlobalConfig(file, hosts, outcome) ==
    CASE outcome = "ok" -> [err |-> "", file |-> FileOf(hosts)]
      [] outcome = "fail_open" -> [err |-> "error creating config file", file |-> file]
      [] outcome = "fail_trunc" -> [err |-> "error writing config file", file |-> FileOf(EmptyHosts)]
      [] OTHER -> [err |-> "error writing config file", file |-> CorruptFile]

(***************************************************************************)
(* Authenticated transport (APIClient)                                     *)
(***************************************************************************)
ErrNotLoggedIn == "not logged in"

ErrLoadCreds == "failed to load credentials"

ErrSessionExpired == "session expired"

ErrNoRefreshToken == "no refresh token available"

ErrRefreshProvider == "failed to refresh token"

ErrSaveRefreshed == "failed to save refreshed credentials"

ErrRequestFailed == "request failed"

ErrRetryFailed == "retry request failed"

ErrRefreshCreds == "failed to refresh credentials"

ErrOpenFile == "open failed"

ErrServerStatus == "server returned status"

\* one observable step of a transport call
\*   send     an HTTP request to the site API (method, path, bearer, outcome)
\*   refresh  a call of refreshTokenIfNeeded
\*   provider a token request to the identity provider (what = provider)
\*   save     a SaveGlobalConfig of refreshed credentials (what = outcome)
Ev(ev, what, path, bearer, status) ==
    [ev |-> ev, what |-> what, path |-> path, bearer |-> bearer, status |-> status]

SendEv(method, path, bearer, outcome) == Ev("send", method, path, bearer, outcome)

\* the provider's answer to a refresh request and the outcome of the save
\* that follows: ok = HTTP 200 with a parseable body
\* provider is the branch the switch on creds.Provider takes: the stored
\* entry (globalconfig.go) holds the two tokens only, so the mechanism a
\* refresh uses is an input of the call like the provider's answer
RefreshFailure ==
    [ok |-> FALSE, access |-> "", refresh |-> "", save |-> "ok", provider |-> "workos"]

RefreshEnvs == [ok : {TRUE}, access : AccessTokens, refresh : RefreshTokens,
                save : SaveOutcomes, provider : Providers]
               \cup {[RefreshFailure EXCEPT !.provider = p] : p \in Providers}

\* the refresh environments in which refreshTokenIfNeeded returns nil
RefreshEnvsSaved == {rf \in RefreshEnvs : rf.ok /\ rf.save = "ok"}

\* what the environment answers during one doRequest: the outcome r1 of the
\* first exchange, the refresh environment rf and the outcome r2 of the
\* retried exchange; rf is only consulted after a 401 and r2 only after a
\* refresh that returned nil, so one value stands for them elsewhere
RequestEnvs ==
    {[r1 |-> r, rf |-> RefreshFailure, r2 |-> NetErr] : r \in HttpOutcomes}
    \cup [r1 : {401}, rf : RefreshEnvs \ RefreshEnvsSaved, r2 : {NetErr}]
    \cup [r1 : {401}, rf : RefreshEnvsSaved, r2 : HttpOutcomes]

\* the same for one uploadFile, with the outcomes of the two os.Open calls
UploadEnvs ==
    {[open1 |-> FALSE, r1 |-> NetErr, rf |-> RefreshFailure, open2 |-> FALSE, r2 |-> NetErr]}
    \cup {[open1 |-> TRUE, r1 |-> r, rf |-> RefreshFailure, open2 |-> FALSE, r2 |-> NetErr] :
            r \in HttpOutcomes}
    \cup [open1 : {TRUE}, r1 : {401}, rf : RefreshEnvs \ RefreshEnvsSaved,
          open2 : {FALSE}, r2 : {NetErr}]
    \cup [open1 : {TRUE}, r1 : {401}, rf : RefreshEnvsSaved, open2 : {FALSE}, r2 : {NetErr}]
    \cup [open1 : {TRUE}, r1 : {401}, rf : RefreshEnvsSaved, open2 : {TRUE}, r2 : HttpOutcomes]

\* APIClient.getAccessToken
\* the entry's token returned without the test for the empty string
getAccessToken_AnyEntry(file, host) ==
    LET loaded(config) ==
            LET got == GetHostCredentials(config.Hosts, host)
            IN  IF config.err # "" THEN [err |-> ErrLoadCreds, token |-> ""]
                ELSE IF ~got.ok THEN [err |-> ErrNotLoggedIn, token |-> ""]
                     ELSE [err |-> "", token |-> got.creds.AccessToken]
    IN  loaded(LoadGlobalConfig(file))

getAccessToken(file, host) ==
    LET loaded(config) ==
            LET got == GetHostCredentials(config.Hosts, host)
            IN  IF config.err # "" THEN [err |-> ErrLoadCreds, token |-> ""]
                ELSE IF ~got.ok \/ got.creds.AccessToken = ""
                     THEN [err |-> ErrNotLoggedIn, token |-> ""]
                     ELSE [err |-> "", token |-> got.creds.AccessToken]
    IN  loaded(LoadGlobalConfig(file))

\* the credentials built from the provider's refresh response, in the
\* branch of the switch for rf.provider
RefreshedCreds(creds, rf) ==
    IF rf.provider = "google"
    THEN Cred(rf.access, IF rf.refresh = "" THEN creds.RefreshToken ELSE rf.refresh)
    ELSE Cred(rf.access, rf.refresh)

\* refreshTokenIfNeeded without the check of SaveGlobalConfig's error
refreshTokenIfNeeded_IgnoreSaveError(file, host, rf) ==
    LET loaded(config) ==
            LET got == GetHostCredentials(config.Hosts, host)
                start == <<Ev("refresh", "", "", "", 0)>>
                asked == start \o <<Ev("provider", rf.provider, "", got.creds.RefreshToken,
                                       IF rf.ok THEN 200 ELSE 400)>>
                newHosts == SetHostCredentials(config.Hosts, host, RefreshedCreds(got.creds, rf))
                saved == SaveGlobalConfig(file, newHosts, rf.save)
            IN  IF config.err # "" THEN [err |-> ErrLoadCreds, file |-> file, trace |-> start]
                ELSE IF ~got.ok \/ got.creds.RefreshToken = ""
                THEN [err |-> ErrNoRefreshToken, file |-> file, trace |-> start]
                ELSE IF ~rf.ok
                THEN [err |-> ErrRefreshProvider, file |-> file, trace |-> asked]
                ELSE [err |-> "", file |-> saved.file,
                      trace |-> asked \o <<Ev("save", rf.save, "", "", 0)>>]
    IN  loaded(LoadGlobalConfig(file))

\* the refreshed credentials saved in a configuration of their own instead
\* of the one loaded
refreshTokenIfNeeded_SaveOwnEntryOnly(file, host, rf) ==
    LET loaded(config) ==
            LET got == GetHostCredentials(config.Hosts, host)
                start == <<Ev("refresh", "", "", "", 0)>>
                asked == start \o <<Ev("provider", rf.provider, "", got.creds.RefreshToken,
                                       IF rf.ok THEN 200 ELSE 400)>>
                newHosts == SetHostCredentials(EmptyHosts, host, RefreshedCreds(got.creds, rf))
                saved == SaveGlobalConfig(file, newHosts, rf.save)
            IN  IF config.err # "" THEN [err |-> ErrLoadCreds, file |-> file, trace |-> start]
                ELSE IF ~got.ok \/ got.creds.RefreshToken = ""
                THEN [err |-> ErrNoRefreshToken, file |-> file, trace |-> start]
                ELSE IF ~rf.ok
                THEN [err |-> ErrRefreshProvider, file |-> file, trace |-> asked]
                ELSE IF saved.err # ""
                THEN [err |-> ErrSaveRefreshed, file |-> saved.file,
                      trace |-> asked \o <<Ev("save", rf.save, "", "", 0)>>]
                ELSE [err |-> "", file |-> saved.file,
                      trace |-> asked \o <<Ev("save", rf.save, "", "", 0)>>]
    IN  loaded(LoadGlobalConfig(file))

\* APIClient.refreshTokenIfNeeded
refreshTokenIfNeeded(file, host, rf) ==
    LET loaded(config) ==
            LET got == GetHostCredentials(config.Hosts, host)
                start == <<Ev("refresh", "", "", "", 0)>>
                asked == start \o <<Ev("provider", rf.provider, "", got.creds.RefreshToken,
                                       IF rf.ok THEN 200 ELSE 400)>>
                newHosts == SetHostCredentials(config.Hosts, host, RefreshedCreds(got.creds, rf))
                saved == SaveGlobalConfig(file, newHosts, rf.save)
            IN  IF config.err # "" THEN [err |-> ErrLoadCreds, file |-> file, trace |-> start]
                ELSE IF ~got.ok \/ got.creds.RefreshToken = ""
                THEN [err |-> ErrNoRefreshToken, file |-> file, trace |-> start]
                ELSE IF ~rf.ok
                THEN [err |-> ErrRefreshProvider, file |-> file, trace |-> asked]
                ELSE IF saved.err # ""
                THEN [err |-> ErrSaveRefreshed, file |-> saved.file,
                      trace |-> asked \o <<Ev("save", rf.save, "", "", 0)>>]
                ELSE [err |-> "", file |-> saved.file,
                      trace |-> asked \o <<Ev("save", rf.save, "", "", 0)>>]
    IN  loaded(LoadGlobalConfig(file))

\* the result of a transport call: the error ("" for none), the status of the
\* response returned (0 with an error), the client's flag and the credentials
\* file afterwards, and the steps taken
CallResult(err, status, flag, file, trace) ==
    [err |-> err, status |-> status, refreshFailed |-> flag, file |-> file,
     trace |-> trace]

\* the refresh and retry taken on any status but 200 instead of on 401 only
doRequest_RetryOnAnyError(flag, file, host, method, path, r1, rf, r2) ==
    LET answered(tok1, rr) ==
            LET retried(tok2) ==
                    LET s1 == <<SendEv(method, path, tok1.token, r1)>>
                        t2 == s1 \o rr.trace
                        s2 == t2 \o <<SendEv(method, path, tok2.token, r2)>>
                    IN  IF tok1.err # "" THEN CallResult(tok1.err, 0, flag, file, <<>>)
                        ELSE IF r1 = NetErr THEN CallResult(ErrRequestFailed, 0, flag, file, s1)
                        ELSE IF r1 = 200 THEN CallResult("", r1, flag, file, s1)
                        ELSE IF flag THEN CallResult(ErrSessionExpired, 0, flag, file, s1)
                        ELSE IF rr.err # "" THEN CallResult(ErrSessionExpired, 0, TRUE, rr.file, t2)
                        ELSE IF tok2.err # "" THEN CallResult(tok2.err, 0, flag, rr.file, t2)
                        ELSE IF r2 = NetErr THEN CallResult(ErrRetryFailed, 0, flag, rr.file, s2)
                        ELSE CallResult("", r2, flag, rr.file, s2)
            IN  retried(getAccessToken(rr.file, host))
    IN  answered(getAccessToken(file, host), refreshTokenIfNeeded(file, host, rf))

\* the retried request sent with the token read before the first attempt
doRequest_ReuseToken(flag, file, host, method, path, r1, rf, r2) ==
    LET answered(tok1, rr) ==
            LET retried(tok2) ==
                    LET s1 == <<SendEv(method, path, tok1.token, r1)>>
                        t2 == s1 \o rr.trace
                        s2 == t2 \o <<SendEv(method, path, tok1.token, r2)>>
                    IN  IF tok1.err # "" THEN CallResult(tok1.err, 0, flag, file, <<>>)
                        ELSE IF r1 = NetErr THEN CallResult(ErrRequestFailed, 0, flag, file, s1)
                        ELSE IF r1 # 401 THEN CallResult("", r1, flag, file, s1)
                        ELSE IF flag THEN CallResult(ErrSessionExpired, 0, flag, file, s1)
                        ELSE IF rr.err # "" THEN CallResult(ErrSessionExpired, 0, TRUE, rr.file, t2)
                        ELSE IF tok2.err # "" THEN CallResult(tok2.err, 0, flag, rr.file, t2)
                        ELSE IF r2 = NetErr THEN CallResult(ErrRetryFailed, 0, flag, rr.file, s2)
                        ELSE CallResult("", r2, flag, rr.file, s2)
            IN  retried(getAccessToken(rr.file, host))
    IN  answered(getAccessToken(file, host), refreshTokenIfNeeded(file, host, rf))

\* APIClient.doRequest; r1 and r2 are the outcomes of the first and of the
\* retried exchange, rf the refresh environment
doRequest(flag, file, host, method, path, r1, rf, r2) ==
    LET answered(tok1, rr) ==
            LET retried(tok2) ==
                    LET s1 == <<SendEv(method, path, tok1.token, r1)>>
                        t2 == s1 \o rr.trace
                        s2 == t2 \o <<SendEv(method, path, tok2.token, r2)>>
                    IN  IF tok1.err # "" THEN CallResult(tok1.err, 0, flag, file, <<>>)
                        ELSE IF r1 = NetErr THEN CallResult(ErrRequestFailed, 0, flag, file, s1)
                        ELSE IF r1 # 401 THEN CallResult("", r1, flag, file, s1)
                        ELSE IF flag THEN CallResult(ErrSessionExpired, 0, flag, file, s1)
                        ELSE IF rr.err # "" THEN CallResult(ErrSessionExpired, 0, TRUE, rr.file, t2)
                        ELSE IF tok2.err # "" THEN CallResult(tok2.err, 0, flag, rr.file, t2)
                        ELSE IF r2 = NetErr THEN CallResult(ErrRetryFailed, 0, flag, rr.file, s2)
                        ELSE CallResult("", r2, flag, rr.file, s2)
            IN  retried(getAccessToken(rr.file, host))
    IN  answered(getAccessToken(file, host), refreshTokenIfNeeded(file, host, rf))

\* uploadFile: open1/open2 tell whether os.Open of the local file succeeds
uploadFile(flag, file, host, path, open1, r1, rf, open2, r2) ==
    LET answered(tok1, rr) ==
            LET retried(tok2) ==
                    LET s1 == <<SendEv("PUT", path, tok1.token, r1)>>
                        t2 == s1 \o rr.trace
                        s2 == t2 \o <<SendEv("PUT", path, tok2.token, r2)>>
                    IN  IF ~open1 THEN CallResult(ErrOpenFile, 0, flag, file, <<>>)
                        ELSE IF tok1.err # "" THEN CallResult(tok1.err, 0, flag, file, <<>>)
                        ELSE IF r1 = NetErr THEN CallResult(ErrRequestFailed, 0, flag, file, s1)
                        ELSE IF r1 # 401
                        THEN CallResult(IF r1 # 200 THEN ErrServerStatus ELSE "", r1, flag, file, s1)
                        ELSE IF rr.err # "" THEN CallResult(ErrRefreshCreds, 0, flag, rr.file, t2)
                        ELSE IF tok2.err # "" THEN CallResult(tok2.err, 0, flag, rr.file, t2)
                        ELSE IF ~open2 THEN CallResult(ErrOpenFile, 0, flag, rr.file, t2)
                        ELSE IF r2 = NetErr THEN CallResult(ErrRequestFailed, 0, flag, rr.file, s2)
                        ELSE CallResult(IF r2 # 200 THEN ErrServerStatus ELSE "", r2, flag, rr.file, s2)
            IN  retried(getAccessToken(rr.file, host))
    IN  answered(getAccessToken(file, host), refreshTokenIfNeeded(file, host, rf))

\* deleteFile: APIClient.Delete, then any status but 200 is an error
deleteFile(flag, file, host, path, r1, rf, r2) ==
    LET checked(res) == IF res.err = "" /\ res.status # 200
                        THEN [res EXCEPT !.err = ErrServerStatus]
                        ELSE res
    IN  checked(doRequest(flag, file, host, "DELETE", path, r1, rf, r2))

(***************************************************************************)
(* Manifests and the reconciliation planner (computeSyncPlan)              *)
(***************************************************************************)
Paths == {"/a", "/b", "/c"}

\* fingerprints (hex digests as strings); "abc" and "ABC" differ only in case
ETags == {"abc", "ABC", "def"}

\* the size of the content with the given fingerprint; sizes are counted in
\* units of 2^60 bytes, so that an int64 holds -8..7 units
FileSize(etag) == IF etag = "def" THEN 2 ELSE 1

\* longest local and remote manifests enumerated
MaxLocal == 2

MaxRemote == 2

LocalFile(path, etag) == [Path |-> path, ETag |-> etag, Size |-> FileSize(etag)]

RemoteFile(path, etag) == [Path |-> path, ETag |-> etag, Size |-> FileSize(etag)]

LocalFiles == {LocalFile(p, e) : p \in Paths, e \in ETags}

RemoteFiles == {RemoteFile(p, e) : p \in Paths, e \in ETags}

SeqsUpTo(S, n) == UNION {[1..k -> S] : k \in 0..n}

PathsOf(files) == {files[i].Path : i \in DOMAIN files}

RangeOf(f) == {f[i] : i \in DOMAIN f}

UniquePaths(files) == \A i, j \in DOMAIN files : files[i].Path = files[j].Path => i = j

\* a scan lists every file once, so a local manifest has no path twice; the
\* remote listing is whatever the server sent and may repeat a path
LocalManifests == {l \in SeqsUpTo(LocalFiles, MaxLocal) : UniquePaths(l)}

RemoteManifests == SeqsUpTo(RemoteFiles, MaxRemote)

EmptyPlan == [ToUpload |-> <<>>, ToDelete |-> <<>>, Unchanged |-> <<>>]

\* the remote map left empty
RemoteMapOf_Empty(remote) == [p \in {} |-> RemoteFile("/a", "abc")]

\* remoteMap after "for _, rf := range remote { remoteMap[rf.Path] = rf }":
\* a later entry overwrites an earlier one with the same path
RemoteMapOf(remote) ==
    [p \in PathsOf(remote) |->
        remote[CHOOSE i \in DOMAIN remote :
                  /\ remote[i].Path = p
                  /\ \A j \in DOMAIN remote : remote[j].Path = p => j <= i]]

\* the processed path left in the remote map
MapDelete_Keep(m, key) == m

MapDelete(m, key) == [k \in DOMAIN m \ {key} |-> m[k]]

\* a hex digest with its letters in lower case
LowerHex(etag) == IF etag = "ABC" THEN "abc" ELSE etag

\* fingerprints compared without regard to case
ETagsDiffer_CaseFold(localTag, remoteTag) == LowerHex(localTag) # LowerHex(remoteTag)

\* no two fingerprints taken to differ
ETagsDiffer_Never(localTag, remoteTag) == FALSE

\* lf.ETag != rf.ETag: Go string comparison, byte for byte
ETagsDiffer(localTag, remoteTag) == localTag # remoteTag

\* the loop putting each file to send in front of the ones found before
RECURSIVE PlanLocal_Prepend(_, _, _, _, _)
PlanLocal_Prepend(local, i, remoteMap, force, plan) ==
    IF i > Len(local) THEN [plan |-> plan, remoteMap |-> remoteMap]
    ELSE LET lf == local[i]
             existsRemote == lf.Path \in DOMAIN remoteMap
             next == IF ~existsRemote \/ force
                        \/ ETagsDiffer(lf.ETag, remoteMap[lf.Path].ETag)
                     THEN [plan EXCEPT !.ToUpload = <<lf>> \o @]
                     ELSE [plan EXCEPT !.Unchanged = Append(@, lf.Path)]
         IN  PlanLocal_Prepend(local, i + 1, MapDelete(remoteMap, lf.Path), force, next)

\* the loop removing a path from the remote map only when it is unchanged
RECURSIVE PlanLocal_KeepUploaded(_, _, _, _, _)
PlanLocal_KeepUploaded(local, i, remoteMap, force, plan) ==
    IF i > Len(local) THEN [plan |-> plan, remoteMap |-> remoteMap]
    ELSE LET lf == local[i]
             existsRemote == lf.Path \in DOMAIN remoteMap
             upload == ~existsRemote \/ force
                          \/ ETagsDiffer(lf.ETag, remoteMap[lf.Path].ETag)
             next == IF upload THEN [plan EXCEPT !.ToUpload = Append(@, lf)]
                     ELSE [plan EXCEPT !.Unchanged = Append(@, lf.Path)]
         IN  PlanLocal_KeepUploaded(local, i + 1,
                                    IF upload THEN remoteMap
                                    ELSE MapDelete(remoteMap, lf.Path), force, next)

\* the loop over the local files from index i on, carrying the remote map
\* and the plan built so far
RECURSIVE PlanLocal(_, _, _, _, _)
PlanLocal(local, i, remoteMap, force, plan) ==
    IF i > Len(local) THEN [plan |-> plan, remoteMap |-> remoteMap]
    ELSE LET lf == local[i]
             existsRemote == lf.Path \in DOMAIN remoteMap
             next == IF ~existsRemote \/ force
                        \/ ETagsDiffer(lf.ETag, remoteMap[lf.Path].ETag)
                     THEN [plan EXCEPT !.ToUpload = Append(@, lf)]
                     ELSE [plan EXCEPT !.Unchanged = Append(@, lf.Path)]
         IN  PlanLocal(local, i + 1, MapDelete(remoteMap, lf.Path), force, next)

\* the orders in which "for _, rf := range remoteMap" can visit the map: Go
\* leaves the iteration order of a map unspecified
MapOrders(m) ==
    {o \in [1..Cardinality(DOMAIN m) -> DOMAIN m] :
        \A k \in DOMAIN m : \E i \in DOMAIN o : o[i] = k}

\* the remote-only paths: what is left in remoteMap after the local loop
Leftover(local, remote, force) ==
    PlanLocal(local, 1, RemoteMapOf(remote), force, EmptyPlan).remoteMap

\* the leftover appended whatever the delete flag says
DeletionsOf_IgnoreFlag(leftover, deleteRemote, order) ==
    [i \in DOMAIN order |-> leftover[order[i]]]

\* the deletions appended from the leftover map visited in the given order
DeletionsOf(leftover, deleteRemote, order) ==
    IF deleteRemote THEN [i \in DOMAIN order |-> leftover[order[i]]] ELSE <<>>

\* computeSyncPlan; order is the order in which the runtime visits the
\* leftover remoteMap
computeSyncPlan(local, remote, force, deleteRemote, order) ==
    LET done == PlanLocal(local, 1, RemoteMapOf(remote), force, EmptyPlan)
    IN  [done.plan EXCEPT !.ToDelete = DeletionsOf(done.remoteMap, deleteRemote, order)]

(***************************************************************************)
(* State                                                                   *)
(***************************************************************************)
VARIABLES
    credFile,       \* the credentials file shared by all commands
    refreshFailed,  \* APIClient.refreshFailed of the client instance
    lastCall,       \* the last transport call made with the client
    localFiles,     \* the local manifest (scanLocalFiles' result)
    remoteFiles,    \* the remote manifest handed to the planner
    force,          \* SyncCmd.Force
    deleteRemote,   \* SyncCmd.Delete
    dryRun,         \* SyncCmd.DryRun
    plan,           \* the SyncPlan computed
    pc,             \* position of the command being run
    maxSpace,       \* the MaxSpace the server reports for the site
    quota,          \* the QuotaInfo decoded by fetchQuota
    server,         \* the objects in the remote store, in listing order
    nDeleted,       \* deletions of the plan completed by executeSyncPlan
    nUploaded,      \* uploads of the plan completed by executeSyncPlan
    reqlog,         \* the HTTP requests sent to the site API in this run
    runErr,         \* the error SyncCmd.Run returned (NoErr for none)
    history,        \* the earlier runs of the command, oldest first
    tree,           \* the directory tree handed to scanLocalFiles
    visited,        \* the paths filepath.Walk handed to the callback, in order
    config,         \* the GlobalConfig a command holds in memory
    storeOp,        \* the last operation made on the credential store
    batch,          \* the remove-by-name command being run
    procs,          \* the commands running at once on the credentials file
    login           \* the login command being run

vars == <<credFile, refreshFailed, lastCall, localFiles, remoteFiles, force,
          deleteRemote, dryRun, plan, pc, maxSpace, quota, server, nDeleted,
          nUploaded, reqlog, runErr, history, tree, visited, config, storeOp,
          batch, procs, login>>

\* the variables of the specifications that study one function on its own
scanVars == <<tree, visited>>

storeVars == <<config, storeOp>>

batchVars == <<batch>>

cmdVars == <<procs, login>>

auxVars == <<scanVars, storeVars, batchVars, cmdVars>>

clientVars == <<credFile, refreshFailed, lastCall>>

syncVars == <<localFiles, remoteFiles, force, deleteRemote, dryRun, plan,
              maxSpace, quota, server, nDeleted, nUploaded, reqlog, runErr,
              history, auxVars>>

\* a QuotaInfo as decoded from the server's answer
QuotaInfo(current, max, available) ==
    [CurrentSpace |-> current, MaxSpace |-> max, AvailableSpace |-> available]

\* the zero value of QuotaInfo
NoQuota == QuotaInfo(0, 0, 0)

\* no tree scanned
NoTree == [kind |-> <<>>, fault |-> [at |-> <<>>, what |-> "none"], sep |-> "/"]

\* no operation made on the credential store
NoStoreOp == [op |-> "none", host |-> "", creds |-> Cred("", ""), ok |-> FALSE,
              err |-> ""]

\* the variables of the single-function specifications at rest
ScanIdle ==
    /\ tree = NoTree
    /\ visited = <<>>

StoreIdle ==
    /\ config = [Hosts |-> EmptyHosts]
    /\ storeOp = NoStoreOp

\* no remove-by-name command
NoBatch == [kind |-> "", names |-> <<>>, remote |-> <<>>, idOf |-> <<>>, next |-> 0,
            out |-> <<>>]

BatchIdle == batch = NoBatch

\* no concurrent commands
NoProcs == <<>>

\* no login command
NoLogin == [pc |-> "", provider |-> "", host |-> "", interval |-> 0, expiresAt |-> 0,
            now |-> 0, answer |-> "", token |-> [access |-> "", refresh |-> ""],
            err |-> ""]

CmdIdle ==
    /\ procs = NoProcs
    /\ login = NoLogin

AuxIdle == ScanIdle /\ StoreIdle /\ BatchIdle /\ CmdIdle

\* an error returned by SyncCmd.Run: its message, the path it names and the
\* error it wraps
RunError(msg, path, cause) == [msg |-> msg, path |-> path, cause |-> cause]

NoErr == RunError("", "", "")

NoCall == [op |-> "none", method |-> "", path |-> "", flagBefore |-> FALSE,
           err |-> "", status |-> 0, trace |-> <<>>]

\* the record kept of a transport call
CallOf(op, method, path, flagBefore, res) ==
    [op |-> op, method |-> method, path |-> path, flagBefore |-> flagBefore,
     err |-> res.err, status |-> res.status, trace |-> res.trace]

(***************************************************************************)
(* SpecClient: any sequence of calls on one APIClient                      *)
(***************************************************************************)
\* the credentials files a client can find: any entry or none for its own
\* host, with or without an entry for another host, or an unparseable file
OtherCred == Cred("a2", "r2")

ClientFiles ==
    {FileOf(SetHostCredentials(EmptyHosts, ClientHost, c)) : c \in HostCredentials}
    \cup {FileOf(SetHostCredentials(SetHostCredentials(EmptyHosts, OtherHost, OtherCred),
                                    ClientHost, c)) : c \in HostCredentials}
    \cup {FileOf(EmptyHosts), FileOf(SetHostCredentials(EmptyHosts, OtherHost, OtherCred)),
          CorruptFile}

InitClient ==
    /\ credFile \in ClientFiles
    /\ refreshFailed = FALSE
    /\ lastCall = NoCall
    /\ localFiles = <<>>
    /\ remoteFiles = <<>>
    /\ force = FALSE
    /\ deleteRemote = FALSE
    /\ dryRun = FALSE
    /\ plan = EmptyPlan
    /\ pc = "client"
    /\ maxSpace = 0
    /\ quota = NoQuota
    /\ server = <<>>
    /\ nDeleted = 0
    /\ nUploaded = 0
    /\ reqlog = <<>>
    /\ runErr = NoErr
    /\ history = <<>>
    /\ AuxIdle

\* APIClient.Get / Post / Patch / Delete
ClientRequest ==
    /\ pc = "client"
    /\ \E method \in Methods, env \in RequestEnvs :
          LET res == doRequest(refreshFailed, credFile, ClientHost, method, "/x",
                               env.r1, env.rf, env.r2)
          IN  /\ lastCall' = CallOf("doRequest", method, "/x", refreshFailed, res)
              /\ refreshFailed' = res.refreshFailed
              /\ credFile' = res.file
    /\ UNCHANGED <<pc, syncVars>>

\* uploadFile(client, siteID, file)
ClientUpload ==
    /\ pc = "client"
    /\ \E env \in UploadEnvs :
          LET res == uploadFile(refreshFailed, credFile, ClientHost, "/x",
                                env.open1, env.r1, env.rf, env.open2, env.r2)
          IN  /\ lastCall' = CallOf("uploadFile", "PUT", "/x", refreshFailed, res)
              /\ refreshFailed' = res.refreshFailed
              /\ credFile' = res.file
    /\ UNCHANGED <<pc, syncVars>>

NextClient == ClientRequest \/ ClientUpload

SpecClient == InitClient /\ [][NextClient]_vars

(***************************************************************************)
(* SpecPlan: computeSyncPlan on bounded manifests                          *)
(***************************************************************************)
InitPlan ==
    /\ localFiles \in LocalManifests
    /\ remoteFiles \in RemoteManifests
    /\ force \in BOOLEAN
    /\ deleteRemote \in BOOLEAN
    /\ plan = EmptyPlan
    /\ pc = "plan"
    /\ credFile = FileOf(EmptyHosts)
    /\ refreshFailed = FALSE
    /\ lastCall = NoCall
    /\ dryRun = FALSE
    /\ maxSpace = 0
    /\ quota = NoQuota
    /\ server = <<>>
    /\ nDeleted = 0
    /\ nUploaded = 0
    /\ reqlog = <<>>
    /\ runErr = NoErr
    /\ history = <<>>
    /\ AuxIdle

\* plan := computeSyncPlan(localFiles, remoteFiles, s.Force, s.Delete)
ComputePlan ==
    /\ pc = "plan"
    /\ \E order \in MapOrders(Leftover(localFiles, remoteFiles, force)) :
          plan' = computeSyncPlan(localFiles, remoteFiles, force, deleteRemote, order)
    /\ pc' = "planned"
    /\ UNCHANGED <<clientVars, localFiles, remoteFiles, force, deleteRemote, dryRun,
                   maxSpace, quota, server, nDeleted, nUploaded, reqlog, runErr,
                   history, auxVars>>

NextPlan == ComputePlan

SpecPlan == InitPlan /\ [][NextPlan]_vars

(***************************************************************************)
(* Spec: one run of SyncCmd.Run                                            *)
(***************************************************************************)
\* longest local manifest and largest remote store of a run
MaxRunLocal == 2

MaxRunRemote == 2

RunETags == {"abc", "def"}

\* the quota limits a server may report
MaxSpaces == {2}

\* filepath.Walk visits a directory in lexical order, so the manifest of a
\* scan is sorted by path
PathBefore(p, q) == (p = "/a" /\ q \in {"/b", "/c"}) \/ (p = "/b" /\ q = "/c")

RunLocalManifests ==
    {l \in SeqsUpTo({LocalFile(p, e) : p \in Paths, e \in RunETags}, MaxRunLocal) :
        \A i, j \in DOMAIN l : i < j => PathBefore(l[i].Path, l[j].Path)}

\* the remote store holds one object per path; before the run every object
\* has the content "abc", so that a local file is new, changed or unchanged
RunServers ==
    {r \in SeqsUpTo({RemoteFile(p, "abc") : p \in Paths}, MaxRunRemote) :
        UniquePaths(r)}

RunFile ==
    FileOf(SetHostCredentials(SetHostCredentials(EmptyHosts, OtherHost, OtherCred),
                              ClientHost, Cred("a1", "r1")))

\* the refresh environments of a run: the provider refuses, answers with new
\* tokens, answers without an access token, or the save fails; with a
\* refresh token in every answer the two branches of the switch store the
\* same entry
RunRefreshEnvs ==
    {RefreshFailure,
     [ok |-> TRUE, access |-> "a2", refresh |-> "r2", save |-> "ok", provider |-> "workos"],
     [ok |-> TRUE, access |-> "", refresh |-> "r2", save |-> "ok", provider |-> "workos"],
     [ok |-> TRUE, access |-> "a2", refresh |-> "r2", save |-> "fail_open", provider |-> "workos"]}

RunRequestEnvs ==
    {[r1 |-> r, rf |-> RefreshFailure, r2 |-> NetErr] : r \in HttpOutcomes}
    \cup [r1 : {401}, rf : RunRefreshEnvs, r2 : HttpOutcomes]

RunUploadEnvs ==
    {[open1 |-> FALSE, r1 |-> NetErr, rf |-> RefreshFailure, open2 |-> FALSE, r2 |-> NetErr]}
    \cup {[open1 |-> TRUE, r1 |-> r, rf |-> RefreshFailure, open2 |-> FALSE, r2 |-> NetErr] :
            r \in HttpOutcomes}
    \cup [open1 : {TRUE}, r1 : {401}, rf : RunRefreshEnvs, open2 : BOOLEAN, r2 : HttpOutcomes]

\* an entry of the request log: one remote operation of the run, the number
\* of HTTP requests it sent and the error it returned ("" for none)
LogEntry(method, path, res) ==
    [method |-> method, path |-> path,
     sends |-> Cardinality({i \in DOMAIN res.trace : res.trace[i].ev = "send"}),
     err |-> res.err]

\* the number of units of 2^60 bytes an int64 distinguishes (2^64 / 2^60)
Int64Span == 16

MaxInt64 == Int64Span \div 2 - 1

\* the int64 a mathematical sum is stored as: two's complement wraparound
Int64(n) == ((n + Int64Span \div 2) % Int64Span) - Int64Span \div 2

\* the mathematical sum of the sizes from entry i on
RECURSIVE SumSizes(_, _)
SumSizes(files, i) == IF i > Len(files) THEN 0 ELSE files[i].Size + SumSizes(files, i + 1)

\* total += f.Size over the first n entries, in an int64
RECURSIVE AddSizes(_, _)
AddSizes(files, n) ==
    IF n = 0 THEN 0 ELSE Int64(AddSizes(files, n - 1) + files[n].Size)

\* the loop stopped one entry early
calculateTotalSize_SkipsLast(files) ==
    IF files = <<>> THEN 0 ELSE AddSizes(files, Len(files) - 1)

\* calculateTotalSize, and the same loop at the head of validateQuota
calculateTotalSize(files) == AddSizes(files, Len(files))

\* the quota check passed whatever the sizes are
validateQuota_Skipped(local, q) == FALSE

\* the comparison made inclusive: a total equal to MaxSpace rejected
validateQuota_AtLeast(local, q) == calculateTotalSize(local) >= q.MaxSpace

\* validateQuota: TRUE when it returns an error
validateQuota(local, q) == calculateTotalSize(local) > q.MaxSpace

\* the quota document the server answers with
QuotaOf(files, max) == QuotaInfo(SumSizes(files, 1), max, max - SumSizes(files, 1))

\* the status code of the answer not looked at
fetchError_IgnoreStatus(res, parseOk) ==
    IF res.err # "" THEN res.err
    ELSE IF ~parseOk THEN "failed to parse response"
    ELSE ""

\* fetchQuota / fetchRemoteFiles: the error of a GET whose body must parse
fetchError(res, parseOk) ==
    IF res.err # "" THEN res.err
    ELSE IF res.status # 200 THEN ErrServerStatus
    ELSE IF ~parseOk THEN "failed to parse response"
    ELSE ""

\* the remote store after a DELETE of the path has been answered with 200
ServerDelete(files, path) == SelectSeq(files, LAMBDA f : f.Path # path)

\* the object stored under a fingerprint other than the local one
ServerPut_OtherETag(files, lf) ==
    IF lf.Path \in PathsOf(files)
    THEN [i \in DOMAIN files |->
            IF files[i].Path = lf.Path THEN RemoteFile(lf.Path, "ABC") ELSE files[i]]
    ELSE Append(files, RemoteFile(lf.Path, "ABC"))

\* the remote store after a PUT of the local file has been answered with 200
ServerPut(files, lf) ==
    IF lf.Path \in PathsOf(files)
    THEN [i \in DOMAIN files |->
            IF files[i].Path = lf.Path THEN RemoteFile(lf.Path, lf.ETag) ELSE files[i]]
    ELSE Append(files, RemoteFile(lf.Path, lf.ETag))

\* the server carried the request out: some exchange of the call was
\* answered with 200
Served(res) == \E i \in DOMAIN res.trace : res.trace[i].ev = "send" /\ res.trace[i].status = 200

InitRun ==
    /\ localFiles \in RunLocalManifests
    /\ server \in RunServers
    /\ force \in BOOLEAN
    /\ deleteRemote \in BOOLEAN
    /\ dryRun \in BOOLEAN
    /\ maxSpace \in MaxSpaces
    /\ quota = NoQuota
    /\ credFile = RunFile
    /\ refreshFailed = FALSE
    /\ lastCall = NoCall
    /\ remoteFiles = <<>>
    /\ plan = EmptyPlan
    /\ pc = "quota"
    /\ nDeleted = 0
    /\ nUploaded = 0
    /\ reqlog = <<>>
    /\ runErr = NoErr
    /\ history = <<>>
    /\ AuxIdle

\* SyncCmd.Run, step 3: fetchQuota, then validateQuota
RunCheckQuota ==
    /\ pc = "quota"
    /\ \E env \in RunRequestEnvs, parseOk \in BOOLEAN :
          LET res == doRequest(refreshFailed, credFile, ClientHost, "GET", "/quota",
                               env.r1, env.rf, env.r2)
              ferr == fetchError(res, parseOk)
          IN  /\ lastCall' = CallOf("doRequest", "GET", "/quota", refreshFailed, res)
              /\ quota' = IF ferr = "" THEN QuotaOf(server, maxSpace) ELSE quota
              /\ refreshFailed' = res.refreshFailed
              /\ credFile' = res.file
              /\ reqlog' = Append(reqlog, LogEntry("GET", "/quota", res))
              /\ IF ferr # ""
                 THEN pc' = "done" /\ runErr' = RunError("failed to fetch quota", "", ferr)
                 ELSE IF validateQuota(localFiles, quota')
                 THEN pc' = "done" /\ runErr' = RunError("local directory size exceeds efmrl quota", "", "")
                 ELSE pc' = "list" /\ runErr' = runErr
    /\ UNCHANGED <<localFiles, remoteFiles, force, deleteRemote, dryRun, plan, maxSpace,
                   server, nDeleted, nUploaded, history, auxVars>>

\* SyncCmd.Run, step 4: fetchRemoteFiles
RunFetchRemote ==
    /\ pc = "list"
    /\ \E env \in RunRequestEnvs, parseOk \in BOOLEAN :
          LET res == doRequest(refreshFailed, credFile, ClientHost, "GET", "/files",
                               env.r1, env.rf, env.r2)
              ferr == fetchError(res, parseOk)
          IN  /\ lastCall' = CallOf("doRequest", "GET", "/files", refreshFailed, res)
              /\ refreshFailed' = res.refreshFailed
              /\ credFile' = res.file
              /\ reqlog' = Append(reqlog, LogEntry("GET", "/files", res))
              /\ IF ferr # ""
                 THEN /\ pc' = "done"
                      /\ runErr' = RunError("failed to fetch remote files", "", ferr)
                      /\ remoteFiles' = remoteFiles
                 ELSE /\ pc' = "plan"
                      /\ runErr' = runErr
                      /\ remoteFiles' = server
    /\ UNCHANGED <<localFiles, force, deleteRemote, dryRun, plan, maxSpace, quota,
                   server, nDeleted, nUploaded, history, auxVars>>

\* the dry-run flag not looked at
afterPlan_IgnoreDryRun(p, dry) ==
    IF Len(p.ToUpload) = 0 /\ Len(p.ToDelete) = 0 THEN "done" ELSE "exec"

\* SyncCmd.Run, steps 6 and 7: where the command goes once the plan is
\* displayed: it returns nil when there is nothing to do and in dry-run mode
afterPlan(p, dry) ==
    IF Len(p.ToUpload) = 0 /\ Len(p.ToDelete) = 0 THEN "done"
    ELSE IF dry THEN "done"
    ELSE "exec"

\* SyncCmd.Run, steps 5 to 7: compute and display the plan, return when
\* there is nothing to do or in dry-run mode, else enter executeSyncPlan
RunPlan ==
    /\ pc = "plan"
    /\ \E order \in MapOrders(Leftover(localFiles, remoteFiles, force)) :
          plan' = computeSyncPlan(localFiles, remoteFiles, force, deleteRemote, order)
    /\ pc' = afterPlan(plan', dryRun)
    /\ UNCHANGED <<clientVars, localFiles, remoteFiles, force, deleteRemote, dryRun,
                   maxSpace, quota, server, nDeleted, nUploaded, reqlog, runErr,
                   history, auxVars>>

\* the upload loop placed before the deletion loop
nextOperation_UploadFirst(p, deleted, uploaded) ==
    IF uploaded < Len(p.ToUpload) THEN "upload"
    ELSE IF deleted < Len(p.ToDelete) THEN "delete"
    ELSE "return"

\* executeSyncPlan: the operation its loops perform next, given how many
\* deletions and uploads are done
nextOperation(p, deleted, uploaded) ==
    IF deleted < Len(p.ToDelete) THEN "delete"
    ELSE IF uploaded < Len(p.ToUpload) THEN "upload"
    ELSE "return"

\* a failed operation reported and skipped, the loops going on
afterOperation_ContinueOnError(p, deleted, uploaded, kind, path, opErr) ==
    LET d == IF kind = "delete" THEN deleted + 1 ELSE deleted
        u == IF kind = "upload" THEN uploaded + 1 ELSE uploaded
    IN  [pc |-> IF nextOperation(p, d, u) = "return" THEN "done" ELSE "exec",
         nDeleted |-> d, nUploaded |-> u,
         runErr |-> IF opErr # ""
                    THEN RunError(IF kind = "delete" THEN "failed to delete"
                                  ELSE "failed to upload", path, opErr)
                    ELSE NoErr]

\* a failed operation tried again instead of ending the run
afterOperation_RepeatOnError(p, deleted, uploaded, kind, path, opErr) ==
    LET d == IF kind = "delete" THEN deleted + 1 ELSE deleted
        u == IF kind = "upload" THEN uploaded + 1 ELSE uploaded
    IN  IF opErr # ""
        THEN [pc |-> "exec", nDeleted |-> deleted, nUploaded |-> uploaded, runErr |-> NoErr]
        ELSE [pc |-> IF nextOperation(p, d, u) = "return" THEN "done" ELSE "exec",
              nDeleted |-> d, nUploaded |-> u, runErr |-> NoErr]

\* executeSyncPlan: where the executor stands after an operation of the given
\* kind returned opErr
afterOperation(p, deleted, uploaded, kind, path, opErr) ==
    LET d == IF kind = "delete" THEN deleted + 1 ELSE deleted
        u == IF kind = "upload" THEN uploaded + 1 ELSE uploaded
    IN  IF opErr # ""
        THEN [pc |-> "done", nDeleted |-> deleted, nUploaded |-> uploaded,
              runErr |-> RunError(IF kind = "delete" THEN "failed to delete"
                                  ELSE "failed to upload", path, opErr)]
        ELSE [pc |-> IF nextOperation(p, d, u) = "return" THEN "done" ELSE "exec",
              nDeleted |-> d, nUploaded |-> u, runErr |-> NoErr]

\* the URL built from the path of another object of the store
deleteURL_FirstObject(path, store) == store[1].Path

\* the object of the store that the URL of deleteFile addresses:
\* "/admin/efmrls/<site>/files" followed by the path given
deleteURL(path, store) == path

\* executeSyncPlan: one pass of the deletion loop
ExecDelete ==
    /\ pc = "exec"
    /\ nextOperation(plan, nDeleted, nUploaded) = "delete"
    /\ \E env \in RunRequestEnvs :
          LET rf == plan.ToDelete[nDeleted + 1]
              url == deleteURL(rf.Path, server)
              res == deleteFile(refreshFailed, credFile, ClientHost, url,
                                env.r1, env.rf, env.r2)
              after == afterOperation(plan, nDeleted, nUploaded, "delete", rf.Path, res.err)
          IN  /\ lastCall' = CallOf("doRequest", "DELETE", url, refreshFailed, res)
              /\ refreshFailed' = res.refreshFailed
              /\ credFile' = res.file
              /\ reqlog' = Append(reqlog, LogEntry("DELETE", url, res))
              /\ server' = IF Served(res) THEN ServerDelete(server, url) ELSE server
              /\ pc' = after.pc
              /\ nDeleted' = after.nDeleted
              /\ nUploaded' = after.nUploaded
              /\ runErr' = after.runErr
    /\ UNCHANGED <<localFiles, remoteFiles, force, deleteRemote, dryRun, plan, maxSpace,
                   quota, history, auxVars>>

\* executeSyncPlan: one pass of the upload loop
ExecUpload ==
    /\ pc = "exec"
    /\ nextOperation(plan, nDeleted, nUploaded) = "upload"
    /\ \E env \in RunUploadEnvs :
          LET lf == plan.ToUpload[nUploaded + 1]
              res == uploadFile(refreshFailed, credFile, ClientHost, lf.Path,
                                env.open1, env.r1, env.rf, env.open2, env.r2)
              after == afterOperation(plan, nDeleted, nUploaded, "upload", lf.Path, res.err)
          IN  /\ lastCall' = CallOf("uploadFile", "PUT", lf.Path, refreshFailed, res)
              /\ refreshFailed' = res.refreshFailed
              /\ credFile' = res.file
              /\ reqlog' = Append(reqlog, LogEntry("PUT", lf.Path, res))
              /\ server' = IF Served(res) THEN ServerPut(server, lf) ELSE server
              /\ pc' = after.pc
              /\ nDeleted' = after.nDeleted
              /\ nUploaded' = after.nUploaded
              /\ runErr' = after.runErr
    /\ UNCHANGED <<localFiles, remoteFiles, force, deleteRemote, dryRun, plan, maxSpace,
                   quota, history, auxVars>>

Next == RunCheckQuota \/ RunFetchRemote \/ RunPlan \/ ExecDelete \/ ExecUpload

Init == InitRun

Spec == Init /\ [][Next]_vars

(***************************************************************************)
(* SpecDup: one run against a store whose listing repeats a path           *)
(***************************************************************************)
\* the listing of a store that names one of its objects a second time, with
\* another fingerprint
DupServers ==
    UNION {{Append(r, RemoteFile(r[i].Path, "def")) : i \in DOMAIN r} : r \in RunServers}

InitDup ==
    /\ localFiles \in RunLocalManifests
    /\ server \in DupServers
    /\ force \in BOOLEAN
    /\ deleteRemote \in BOOLEAN
    /\ dryRun \in BOOLEAN
    /\ maxSpace \in MaxSpaces
    /\ quota = NoQuota
    /\ credFile = RunFile
    /\ refreshFailed = FALSE
    /\ lastCall = NoCall
    /\ remoteFiles = <<>>
    /\ plan = EmptyPlan
    /\ pc = "quota"
    /\ nDeleted = 0
    /\ nUploaded = 0
    /\ reqlog = <<>>
    /\ runErr = NoErr
    /\ history = <<>>
    /\ AuxIdle

SpecDup == InitDup /\ [][Next]_vars

(***************************************************************************)
(* SpecRetry: the command run again after it has returned                  *)
(***************************************************************************)
\* the number of times the command is run on the same tree
MaxRuns == 2

\* the remote store after the first n deletions of the list were carried out
RECURSIVE AfterDeletes(_, _, _)
AfterDeletes(files, dels, n) ==
    IF n = 0 THEN files
    ELSE ServerDelete(AfterDeletes(files, dels, n - 1), dels[n].Path)

\* the remote store after the first n uploads of the list were carried out
RECURSIVE AfterUploads(_, _, _)
AfterUploads(files, ups, n) ==
    IF n = 0 THEN files
    ELSE ServerPut(AfterUploads(files, ups, n - 1), ups[n])

\* the errors that end SyncCmd.Run before the plan is computed, apart from
\* the quota violation: "" is none
FetchFailures == {"", "failed to fetch quota", "failed to fetch remote files"}

\* what is kept of a run that has returned: whether it came to compute a
\* plan, the plan, how far the executor came and the error returned
RunRecord(planned, p, d, u, err) ==
    [planned |-> planned, plan |-> p, nDeleted |-> d, nUploaded |-> u, runErr |-> err]

\* SyncCmd.Run as a whole: fetchQuota, validateQuota, fetchRemoteFiles,
\* computeSyncPlan and executeSyncPlan, which carries out the first stop
\* operations of the plan and fails at the next one (at none when stop is the
\* number of operations); order is the order in which the leftover remoteMap
\* is visited
SyncRunResult(fetchFailure, order, stop) ==
    LET p == computeSyncPlan(localFiles, server, force, deleteRemote, order)
        d == IF stop < Len(p.ToDelete) THEN stop ELSE Len(p.ToDelete)
        u == stop - d
        kind == nextOperation(p, d, u)
        path == IF kind = "delete" THEN p.ToDelete[d + 1].Path
                ELSE IF kind = "upload" THEN p.ToUpload[u + 1].Path
                ELSE ""
        none == RunRecord(FALSE, EmptyPlan, 0, 0, NoErr)
    IN  IF fetchFailure = "failed to fetch quota"
        THEN [run |-> [none EXCEPT !.runErr = RunError(fetchFailure, "", ErrServerStatus)],
              quota |-> NoQuota, listing |-> <<>>, server |-> server]
        ELSE IF validateQuota(localFiles, QuotaOf(server, maxSpace))
        THEN [run |-> [none EXCEPT !.runErr =
                          RunError("local directory size exceeds efmrl quota", "", "")],
              quota |-> QuotaOf(server, maxSpace), listing |-> <<>>, server |-> server]
        ELSE IF fetchFailure = "failed to fetch remote files"
        THEN [run |-> [none EXCEPT !.runErr = RunError(fetchFailure, "", ErrServerStatus)],
              quota |-> QuotaOf(server, maxSpace), listing |-> <<>>, server |-> server]
        ELSE IF afterPlan(p, dryRun) = "done"
        THEN [run |-> RunRecord(TRUE, p, 0, 0, NoErr),
              quota |-> QuotaOf(server, maxSpace), listing |-> server, server |-> server]
        ELSE [run |-> RunRecord(TRUE, p, d, u,
                                IF kind = "return" THEN NoErr
                                ELSE afterOperation(p, d, u, kind, path, ErrServerStatus).runErr),
              quota |-> QuotaOf(server, maxSpace), listing |-> server,
              server |-> AfterUploads(AfterDeletes(server, p.ToDelete, d), p.ToUpload, u)]

\* the user runs the command, for the first time or again: the same tree is
\* scanned with the same flags, and the remote store is as the earlier run
\* left it
SyncRun ==
    /\ pc = "run"
    /\ Len(history) < MaxRuns
    /\ \E fetchFailure \in FetchFailures,
          order \in MapOrders(Leftover(localFiles, server, force)),
          stop \in 0..(MaxRunLocal + MaxRunRemote) :
          LET res == SyncRunResult(fetchFailure, order, stop)
          IN  /\ stop <= Len(computeSyncPlan(localFiles, server, force, deleteRemote,
                                             order).ToDelete)
                         + Len(computeSyncPlan(localFiles, server, force, deleteRemote,
                                               order).ToUpload)
              /\ history' = Append(history, res.run)
              /\ plan' = res.run.plan
              /\ nDeleted' = res.run.nDeleted
              /\ nUploaded' = res.run.nUploaded
              /\ runErr' = res.run.runErr
              /\ quota' = res.quota
              /\ remoteFiles' = res.listing
              /\ server' = res.server
    /\ UNCHANGED <<clientVars, localFiles, force, deleteRemote, dryRun, maxSpace, pc, reqlog, auxVars>>

InitRetry ==
    /\ localFiles \in RunLocalManifests
    /\ server \in RunServers
    /\ force \in BOOLEAN
    /\ deleteRemote \in BOOLEAN
    /\ dryRun \in BOOLEAN
    /\ maxSpace \in MaxSpaces
    /\ credFile = RunFile
    /\ refreshFailed = FALSE
    /\ lastCall = NoCall
    /\ remoteFiles = <<>>
    /\ quota = NoQuota
    /\ plan = EmptyPlan
    /\ pc = "run"
    /\ nDeleted = 0
    /\ nUploaded = 0
    /\ reqlog = <<>>
    /\ runErr = NoErr
    /\ history = <<>>
    /\ AuxIdle

NextRetry == SyncRun

SpecRetry == InitRetry /\ [][NextRetry]_vars

(***************************************************************************)
(* SpecQuota: validateQuota applied to a manifest and a quota document     *)
(***************************************************************************)
\* the values the server may send in the three fields of the quota document;
\* the decoder accepts any 64-bit integer, a negative one included
QuotaMaxSpaces == {-1, 0, 1, 2, 3, 4}

QuotaCurrentSpaces == {0, 1, 5}

QuotaAvailableSpaces == {-1, 0, 3}

QuotaInfos ==
    {QuotaInfo(c, m, a) : c \in QuotaCurrentSpaces, m \in QuotaMaxSpaces,
                          a \in QuotaAvailableSpaces}

InitQuota ==
    /\ localFiles \in RunLocalManifests
    /\ quota \in QuotaInfos
    /\ maxSpace = quota.MaxSpace
    /\ pc = "validate"
    /\ credFile = FileOf(EmptyHosts)
    /\ refreshFailed = FALSE
    /\ lastCall = NoCall
    /\ remoteFiles = <<>>
    /\ force = FALSE
    /\ deleteRemote = FALSE
    /\ dryRun = FALSE
    /\ plan = EmptyPlan
    /\ server = <<>>
    /\ nDeleted = 0
    /\ nUploaded = 0
    /\ reqlog = <<>>
    /\ runErr = NoErr
    /\ history = <<>>
    /\ AuxIdle

\* err := validateQuota(localFiles, quota)
ValidateQuota ==
    /\ pc = "validate"
    /\ runErr' = IF validateQuota(localFiles, quota)
                 THEN RunError("local directory size exceeds efmrl quota", "", "")
                 ELSE NoErr
    /\ pc' = "validated"
    /\ UNCHANGED <<clientVars, localFiles, remoteFiles, force, deleteRemote, dryRun,
                   plan, maxSpace, quota, server, nDeleted, nUploaded, reqlog, history, auxVars>>

NextQuota == ValidateQuota

SpecQuota == InitQuota /\ [][NextQuota]_vars

(***************************************************************************)
(* SpecSum: validateQuota applied to sizes over the whole int64 range      *)
(***************************************************************************)
\* sizes a file can have: none, small, and up to the largest int64
SumSizeValues == {0, 1, 3, 4, MaxInt64}

SumPaths == <<"/a", "/b", "/c">>

\* the manifests of the named files, each with any of the sizes
SumManifests ==
    UNION {{[i \in 1..n |-> [Path |-> SumPaths[i], ETag |-> "abc", Size |-> f[i]]] :
              f \in [1..n -> SumSizeValues]} : n \in 0..Len(SumPaths)}

SumMaxSpaces == {-1, 0, 3, MaxInt64}

InitSum ==
    /\ localFiles \in SumManifests
    /\ \E m \in SumMaxSpaces : quota = QuotaInfo(0, m, m)
    /\ maxSpace = quota.MaxSpace
    /\ pc = "validate"
    /\ credFile = FileOf(EmptyHosts)
    /\ refreshFailed = FALSE
    /\ lastCall = NoCall
    /\ remoteFiles = <<>>
    /\ force = FALSE
    /\ deleteRemote = FALSE
    /\ dryRun = FALSE
    /\ plan = EmptyPlan
    /\ server = <<>>
    /\ nDeleted = 0
    /\ nUploaded = 0
    /\ reqlog = <<>>
    /\ runErr = NoErr
    /\ history = <<>>
    /\ AuxIdle

SpecSum == InitSum /\ [][NextQuota]_vars

(***************************************************************************)
(* SpecScan: scanLocalFiles applied to a directory tree                    *)
(***************************************************************************)
\* the names an entry of the root directory can have, in the lexical order
\* in which filepath.Walk visits the entries of a directory, and the names an
\* entry of a subdirectory can have
ScanNames == <<".h", "a", "b">>

SubNames == <<".h", "a">>

\* strings.HasPrefix(part, "."): of the names of the model, ".h" and the
\* "." that filepath.Rel gives for the root itself begin with "."
HasDotPrefix(part) == part \in {".", ".h"}

\* filepath.Separator of the platform
Separators == {"/", "\\"}

\* a node of the tree is named by the names on the way from the root to it;
\* the root is the empty sequence
ScanPaths ==
    {<<>>} \cup {<<ScanNames[i]>> : i \in DOMAIN ScanNames}
           \cup {<<ScanNames[i], SubNames[j]>> : i \in DOMAIN ScanNames, j \in DOMAIN SubNames}

ParentOf(path) == SubSeq(path, 1, Len(path) - 1)

\* what os.Lstat reports for the root that SyncCmd.Run has accepted with
\* os.Stat: a directory, or a symbolic link to one
RootKinds == {"dir", "link"}

\* the directory trees: each node is a regular file or a directory, and a
\* node below the root exists in a directory only; the entries of a root
\* that is a symbolic link are those of the directory it names
TreeKinds ==
    {[p \in {q \in ScanPaths : k[q] # "none"} |-> k[p]] :
        k \in {f \in [ScanPaths -> {"none", "file", "dir", "link"}] :
                  /\ f[<<>>] \in RootKinds
                  /\ \A q \in ScanPaths \ {<<>>} : f[q] # "link"
                  /\ \A q \in ScanPaths : Len(q) = 2 /\ f[q] # "none" => f[ParentOf(q)] = "dir"}}

\* at most one I/O failure during the scan: os.Lstat of a node, the reading
\* of a directory's entries, or opening and reading a file to hash it
Fault(path, what) == [at |-> path, what |-> what]

NoFault == Fault(<<>>, "none")

FaultsOf(kind) ==
    {NoFault}
    \cup {Fault(p, "lstat") : p \in DOMAIN kind}
    \cup {Fault(p, "readdir") : p \in {q \in DOMAIN kind : kind[q] = "dir"}}
    \cup {Fault(p, "open") : p \in {q \in DOMAIN kind : kind[q] = "file"}}

SkipDir == "SkipDir"

ErrLstat == "lstat failed"

ErrReadDir == "open directory failed"

ErrComputeETag == "failed to compute ETag"

\* filepath.Rel(rootDir, path): the names joined by the separator, "." for
\* the root itself
FilepathRel(path, sep) ==
    IF path = <<>> THEN <<".">>
    ELSE [i \in 1..(2 * Len(path) - 1) |-> IF i % 2 = 1 THEN path[(i + 1) \div 2] ELSE sep]

\* strings.Split(relPath, string(filepath.Separator))
StringsSplit(relPath, sep) == SelectSeq(relPath, LAMBDA x : x # sep)

\* filepath.ToSlash
ToSlash(relPath, sep) == [i \in DOMAIN relPath |-> IF relPath[i] = sep THEN "/" ELSE relPath[i]]

\* the names of the entries of the directory, sorted
ChildNames(t, path) ==
    SelectSeq(IF path = <<>> THEN ScanNames ELSE SubNames,
              LAMBDA n : Append(path, n) \in DOMAIN t.kind)

\* what a step of the walk returns: the error ("" for nil), the files
\* appended so far and the paths handed to the callback so far
WalkResult(ret, files, seen) == [ret |-> ret, files |-> files, visited |-> seen]

\* every file listed, hidden or not
walkFn_ListHidden(t, path, isDir, err, st) ==
    LET seen == Append(st.visited, path)
        relPath == FilepathRel(path, t.sep)
    IN  IF err # "" THEN WalkResult(err, st.files, seen)
        ELSE IF isDir THEN WalkResult("", st.files, seen)
        ELSE IF t.fault = Fault(path, "open")
        THEN WalkResult(ErrComputeETag, st.files, seen)
        ELSE WalkResult("", Append(st.files, LocalFile(<<"/">> \o ToSlash(relPath, t.sep), "abc")),
                        seen)

\* the callback scanLocalFiles hands to filepath.Walk
walkFn(t, path, isDir, err, st) ==
    LET seen == Append(st.visited, path)
        relPath == FilepathRel(path, t.sep)
        parts == StringsSplit(relPath, t.sep)
    IN  IF err # "" THEN WalkResult(err, st.files, seen)
        ELSE IF isDir THEN WalkResult("", st.files, seen)
        ELSE IF \E i \in DOMAIN parts : HasDotPrefix(parts[i])
        THEN WalkResult(IF isDir THEN SkipDir ELSE "", st.files, seen)
        ELSE IF t.fault = Fault(path, "open")
        THEN WalkResult(ErrComputeETag, st.files, seen)
        ELSE WalkResult("", Append(st.files, LocalFile(<<"/">> \o ToSlash(relPath, t.sep), "abc")),
                        seen)

\* filepath.Walk's walk(path, info, walkFn) for a node whose Lstat succeeded,
\* and its loop over the names of a directory from the i-th name on
RECURSIVE walk(_, _, _)
RECURSIVE walkNames(_, _, _, _, _)
walk(t, path, st) ==
    IF t.kind[path] # "dir" THEN walkFn(t, path, FALSE, "", st)
    ELSE LET readErr == IF t.fault = Fault(path, "readdir") THEN ErrReadDir ELSE ""
             r1 == walkFn(t, path, TRUE, readErr, st)
         IN  IF readErr # "" \/ r1.ret # "" THEN r1
             ELSE walkNames(t, path, ChildNames(t, path), 1, r1)

walkNames(t, path, names, i, st) ==
    IF i > Len(names) THEN WalkResult("", st.files, st.visited)
    ELSE LET filename == Append(path, names[i])
             lstatFailed == t.fault = Fault(filename, "lstat")
             r == IF lstatFailed THEN walkFn(t, filename, FALSE, ErrLstat, st)
                  ELSE walk(t, filename, st)
             stop == IF lstatFailed THEN r.ret # "" /\ r.ret # SkipDir
                     ELSE r.ret # "" /\ (t.kind[filename] # "dir" \/ r.ret # SkipDir)
         IN  IF stop THEN r ELSE walkNames(t, path, names, i + 1, r)

\* filepath.Walk(rootDir, walkFn)
filepathWalk(t) ==
    LET st == WalkResult("", <<>>, <<>>)
        r == IF t.fault = Fault(<<>>, "lstat") THEN walkFn(t, <<>>, FALSE, ErrLstat, st)
             ELSE walk(t, <<>>, st)
    IN  IF r.ret = SkipDir THEN [r EXCEPT !.ret = ""] ELSE r

\* scanLocalFiles: "return files, err"
scanLocalFiles(t) ==
    LET r == filepathWalk(t)
    IN  [files |-> r.files, err |-> r.ret, visited |-> r.visited]

InitScan ==
    /\ \E kind \in TreeKinds, sep \in Separators :
          \E fault \in FaultsOf(kind) :
              tree = [kind |-> kind, fault |-> fault, sep |-> sep]
    /\ visited = <<>>
    /\ pc = "scan"
    /\ localFiles = <<>>
    /\ credFile = FileOf(EmptyHosts)
    /\ refreshFailed = FALSE
    /\ lastCall = NoCall
    /\ remoteFiles = <<>>
    /\ force = FALSE
    /\ deleteRemote = FALSE
    /\ dryRun = FALSE
    /\ plan = EmptyPlan
    /\ maxSpace = 0
    /\ quota = NoQuota
    /\ server = <<>>
    /\ nDeleted = 0
    /\ nUploaded = 0
    /\ reqlog = <<>>
    /\ runErr = NoErr
    /\ history = <<>>
    /\ StoreIdle
    /\ BatchIdle
    /\ CmdIdle

\* localFiles, err := scanLocalFiles(absDir)
ScanLocalFiles ==
    /\ pc = "scan"
    /\ LET res == scanLocalFiles(tree)
       IN  /\ localFiles' = res.files
           /\ visited' = res.visited
           /\ runErr' = IF res.err # "" THEN RunError("failed to scan local files", "", res.err)
                        ELSE NoErr
    /\ pc' = "scanned"
    /\ UNCHANGED <<clientVars, remoteFiles, force, deleteRemote, dryRun, plan, maxSpace,
                   quota, server, nDeleted, nUploaded, reqlog, history, tree, storeVars,
                   batchVars, cmdVars>>

NextScan == ScanLocalFiles

SpecScan == InitScan /\ [][NextScan]_vars

(***************************************************************************)
(* SpecStore: any sequence of operations on the credential store           *)
(***************************************************************************)
\* the credentials the commands store: a full entry, one without a refresh
\* token, one without an access token, and the zero value
StoreCreds == {Cred("a1", "r1"), Cred("a2", ""),
               Cred("", "r2"), Cred("", "")}

StoreOp(op, host, creds, ok, err) ==
    [op |-> op, host |-> host, creds |-> creds, ok |-> ok, err |-> err]

\* a command starts with no credentials file and the configuration that
\* LoadGlobalConfig returns for it
InitStore ==
    /\ credFile = NoFile
    /\ config = [Hosts |-> LoadGlobalConfig(NoFile).Hosts]
    /\ storeOp = NoStoreOp
    /\ pc = "store"
    /\ refreshFailed = FALSE
    /\ lastCall = NoCall
    /\ localFiles = <<>>
    /\ remoteFiles = <<>>
    /\ force = FALSE
    /\ deleteRemote = FALSE
    /\ dryRun = FALSE
    /\ plan = EmptyPlan
    /\ maxSpace = 0
    /\ quota = NoQuota
    /\ server = <<>>
    /\ nDeleted = 0
    /\ nUploaded = 0
    /\ reqlog = <<>>
    /\ runErr = NoErr
    /\ history = <<>>
    /\ ScanIdle
    /\ BatchIdle
    /\ CmdIdle

\* gc.SetHostCredentials(host, creds)
StoreSet ==
    /\ pc = "store"
    /\ \E host \in Hosts, creds \in StoreCreds :
          /\ config' = [Hosts |-> SetHostCredentials(config.Hosts, host, creds)]
          /\ storeOp' = StoreOp("set", host, creds, TRUE, "")
    /\ UNCHANGED <<credFile, refreshFailed, lastCall, localFiles, remoteFiles, force,
                   deleteRemote, dryRun, plan, pc, maxSpace, quota, server, nDeleted,
                   nUploaded, reqlog, runErr, history, scanVars, batchVars, cmdVars>>

\* creds, ok := gc.GetHostCredentials(host)
StoreGet ==
    /\ pc = "store"
    /\ \E host \in Hosts :
          LET got == GetHostCredentials(config.Hosts, host)
          IN  storeOp' = StoreOp("get", host, got.creds, got.ok, "")
    /\ UNCHANGED <<credFile, refreshFailed, lastCall, localFiles, remoteFiles, force,
                   deleteRemote, dryRun, plan, pc, maxSpace, quota, server, nDeleted,
                   nUploaded, reqlog, runErr, history, scanVars, batchVars, cmdVars, config>>

\* gc.DeleteHostCredentials(host)
StoreDelete ==
    /\ pc = "store"
    /\ \E host \in Hosts :
          /\ config' = [Hosts |-> DeleteHostCredentials(config.Hosts, host)]
          /\ storeOp' = StoreOp("delete", host, Cred("", ""), TRUE, "")
    /\ UNCHANGED <<credFile, refreshFailed, lastCall, localFiles, remoteFiles, force,
                   deleteRemote, dryRun, plan, pc, maxSpace, quota, server, nDeleted,
                   nUploaded, reqlog, runErr, history, scanVars, batchVars, cmdVars>>

\* err := SaveGlobalConfig(gc)
StoreSave ==
    /\ pc = "store"
    /\ \E outcome \in SaveOutcomes :
          LET res == SaveGlobalConfig(credFile, config.Hosts, outcome)
          IN  /\ credFile' = res.file
              /\ storeOp' = StoreOp("save", "", Cred("", ""), res.err = "", res.err)
    /\ UNCHANGED <<refreshFailed, lastCall, localFiles, remoteFiles, force,
                   deleteRemote, dryRun, plan, pc, maxSpace, quota, server, nDeleted,
                   nUploaded, reqlog, runErr, history, scanVars, batchVars, cmdVars, config>>

\* gc, err := LoadGlobalConfig(): on an error the caller has no new
\* configuration and keeps the one it held
StoreLoad ==
    /\ pc = "store"
    /\ LET res == LoadGlobalConfig(credFile)
       IN  /\ config' = IF res.err = "" THEN [Hosts |-> res.Hosts] ELSE config
           /\ storeOp' = StoreOp("load", "", Cred("", ""), res.err = "", res.err)
    /\ UNCHANGED <<credFile, refreshFailed, lastCall, localFiles, remoteFiles, force,
                   deleteRemote, dryRun, plan, pc, maxSpace, quota, server, nDeleted,
                   nUploaded, reqlog, runErr, history, scanVars, batchVars, cmdVars>>

NextStore == StoreSet \/ StoreGet \/ StoreDelete \/ StoreSave \/ StoreLoad

SpecStore == InitStore /\ [][NextStore]_vars

(***************************************************************************)
(* SpecBatch: DomainsRemoveCmd.Run and RewritesRemoveCmd.Run               *)
(***************************************************************************)
MaxBatch == 3

MaxListed == 2

\* the two commands differ only in the collection they address
BatchKinds == {"domains", "rewrites"}

\* names given on the command line and names the server lists
BatchNames == {"a", "b", "x"}

ListedNames == {"a", "b"}

BatchArgs == UNION {[1..n -> BatchNames] : n \in 1..MaxBatch}

\* the listing the server answers with: (id, name) pairs, ids distinct, a
\* name possibly listed twice
Listings ==
    UNION {{[i \in 1..n |-> [ID |-> i, Name |-> f[i]]] : f \in [1..n -> ListedNames]} :
             n \in 0..MaxListed}

\* the name-to-id map built from the listing: a later entry replaces an
\* earlier one of the same name
RECURSIVE IdMapOf(_, _)
IdMapOf(listing, n) ==
    IF n = 0 THEN <<>>
    ELSE LET m == IdMapOf(listing, n - 1)
             e == listing[n]
         IN  [name \in DOMAIN m \cup {e.Name} |-> IF name = e.Name THEN e.ID ELSE m[name]]

\* what stops the command before its first request
BatchSetups == {"ok", "no_config", "no_site_id"}

\* the exchanges of one request of the command
BatchEnvs ==
    {[r1 |-> r, rf |-> RefreshFailure, r2 |-> NetErr] : r \in HttpOutcomes}
    \cup {[r1 |-> 401, rf |-> [ok |-> TRUE, access |-> "a2", refresh |-> "r2", save |-> "ok", provider |-> "workos"],
           r2 |-> 200]}

\* the lines the loop prints for a name
BatchLine(name, result) == [name |-> name, result |-> result]

\* the path of an element of the collection
ElementPath(kind, id) == <<kind, id>>

InitBatch ==
    /\ \E kind \in BatchKinds, names \in BatchArgs, remote \in Listings :
          batch = [kind |-> kind, names |-> names, remote |-> remote, idOf |-> <<>>,
                   next |-> 0, out |-> <<>>]
    /\ pc = "fetch"
    /\ credFile = RunFile
    /\ refreshFailed = FALSE
    /\ lastCall = NoCall
    /\ localFiles = <<>>
    /\ remoteFiles = <<>>
    /\ force = FALSE
    /\ deleteRemote = FALSE
    /\ dryRun = FALSE
    /\ plan = EmptyPlan
    /\ maxSpace = 0
    /\ quota = NoQuota
    /\ server = <<>>
    /\ nDeleted = 0
    /\ nUploaded = 0
    /\ reqlog = <<>>
    /\ runErr = NoErr
    /\ history = <<>>
    /\ ScanIdle
    /\ StoreIdle
    /\ CmdIdle

\* Run up to the loop: the configuration is loaded, the collection is
\* fetched and decoded and the name-to-id map is built
RemoveFetch ==
    /\ pc = "fetch"
    /\ \E setup \in BatchSetups, env \in BatchEnvs, parseOk \in BOOLEAN :
          LET res == doRequest(refreshFailed, credFile, ClientHost, "GET", <<batch.kind>>,
                               env.r1, env.rf, env.r2)
          IN  IF setup = "no_config"
              THEN /\ runErr' = RunError("failed to load config", "", "")
                   /\ pc' = "done"
                   /\ UNCHANGED <<clientVars, reqlog, batch>>
              ELSE IF setup = "no_site_id"
              THEN /\ runErr' = RunError("no site_id configured", "", "")
                   /\ pc' = "done"
                   /\ UNCHANGED <<clientVars, reqlog, batch>>
              ELSE /\ lastCall' = CallOf("doRequest", "GET", <<batch.kind>>, refreshFailed, res)
                   /\ refreshFailed' = res.refreshFailed
                   /\ credFile' = res.file
                   /\ reqlog' = Append(reqlog, LogEntry("GET", <<batch.kind>>, res))
                   /\ IF res.err # ""
                      THEN /\ runErr' = RunError("failed to fetch", "", res.err)
                           /\ pc' = "done"
                           /\ UNCHANGED batch
                      ELSE IF res.status # 200
                      THEN /\ runErr' = RunError("server returned status", "", "")
                           /\ pc' = "done"
                           /\ UNCHANGED batch
                      ELSE IF ~parseOk
                      THEN /\ runErr' = RunError("failed to parse response", "", "")
                           /\ pc' = "done"
                           /\ UNCHANGED batch
                      ELSE /\ batch' = [batch EXCEPT
                                           !.idOf = IdMapOf(batch.remote, Len(batch.remote)),
                                           !.next = 1]
                           /\ pc' = "remove"
                           /\ UNCHANGED runErr
    /\ UNCHANGED <<localFiles, remoteFiles, force, deleteRemote, dryRun, plan, maxSpace,
                   quota, server, nDeleted, nUploaded, history, scanVars, storeVars, cmdVars>>

\* the loop's position after a pass that did not return
AfterName(b) == IF b.next = Len(b.names) THEN "done" ELSE "remove"

\* a name that is not listed treated as a failure of the command
notFound_Abort(b, name) ==
    [pc |-> "done", err |-> RunError("failed to remove", name, "not found")]

\* the branch of a name that is not in the map: continue
notFound(b, name) == [pc |-> AfterName(b), err |-> NoErr]

\* one pass of the loop over the names
RemoveNext ==
    /\ pc = "remove"
    /\ LET name == batch.names[batch.next]
       IN  IF name \notin DOMAIN batch.idOf
           THEN /\ batch' = [batch EXCEPT !.out = Append(@, BatchLine(name, "NOT FOUND")),
                                          !.next = @ + 1]
                /\ pc' = notFound(batch, name).pc
                /\ runErr' = notFound(batch, name).err
                /\ UNCHANGED <<clientVars, reqlog>>
           ELSE \E env \in BatchEnvs :
                  LET path == ElementPath(batch.kind, batch.idOf[name])
                      res == doRequest(refreshFailed, credFile, ClientHost, "DELETE", path,
                                       env.r1, env.rf, env.r2)
                      failed == res.err # "" \/ res.status # 200
                  IN  /\ lastCall' = CallOf("doRequest", "DELETE", path, refreshFailed, res)
                      /\ refreshFailed' = res.refreshFailed
                      /\ credFile' = res.file
                      /\ reqlog' = Append(reqlog, LogEntry("DELETE", path, res))
                      /\ batch' = [batch EXCEPT
                                      !.out = Append(@, BatchLine(name, IF failed THEN "FAILED"
                                                                        ELSE "OK")),
                                      !.next = @ + 1]
                      /\ pc' = IF failed THEN "done" ELSE AfterName(batch)
                      /\ runErr' = IF res.err # ""
                                   THEN RunError("failed to remove", name, res.err)
                                   ELSE IF res.status # 200
                                   THEN RunError("server returned status", "", "")
                                   ELSE NoErr
    /\ UNCHANGED <<localFiles, remoteFiles, force, deleteRemote, dryRun, plan, maxSpace,
                   quota, server, nDeleted, nUploaded, history, scanVars, storeVars, cmdVars>>

NextBatch == RemoveFetch \/ RemoveNext

SpecBatch == InitBatch /\ [][NextBatch]_vars

(***************************************************************************)
(* SpecShare: two commands at once on the credentials file                 *)
(***************************************************************************)
\* "sync" is a command whose transport refreshes the token of ClientHost,
\* "other" a login or a logout for OtherHost run by another process
ProcIds == {"sync", "other"}

\* the error of LoginCmd and LogoutCmd when LoadGlobalConfig fails
ErrLoadConfig == "failed to load config"

ProcCmds == {"refresh", "login", "logout"}

\* what the provider answers to the refresh or to the login
ShareResponses ==
    [ok : {TRUE}, access : {"a2"}, refresh : {"", "r2"}, save : {"ok"}, provider : Providers]

\* The bytes of the file, as the encoder lays them out: the line "[host]",
\* then for each host, in the order of the names, the line "  [host.<name>]"
\* and one indented line "<key> = "<token>"" for each token that is not
\* empty; the encoder puts an empty line before a top-level table only, so
\* none between the tables of two hosts. A line is a
\* record; from is the number of bytes missing at its start (0 for a whole
\* line).
Line(kind, host, val) == [kind |-> kind, host |-> host, val |-> val, from |-> 0]

\* the bytes of a whole line, its newline included; the host names and the
\* tokens of the model have two characters
FullLen(kind) ==
    CASE kind = "top" -> 7
      [] kind = "table" -> 12
      [] kind = "access_token" -> 24
      [] kind = "refresh_token" -> 25

\* the spaces a line begins with
Indent(kind) ==
    CASE kind = "top" -> 0
      [] kind = "table" -> 2
      [] OTHER -> 4

LineLen(line) == FullLen(line.kind) - line.from

RECURSIVE SizeOf(_)
SizeOf(lines) == IF lines = <<>> THEN 0 ELSE LineLen(Head(lines)) + SizeOf(Tail(lines))

\* the table of one host: its header and the keys of EncodeCreds, in the
\* order of the fields of HostCredentials
TableLines(hosts, h) ==
    LET table == EncodeCreds(hosts[h])
        keyLine(key) == IF key \in DOMAIN table THEN <<Line(key, h, table[key])>> ELSE <<>>
    IN  <<Line("table", h, "")>> \o keyLine("access_token") \o keyLine("refresh_token")

\* encoder.Encode(config)
EncodeLines(hosts) ==
    <<Line("top", "", "")>>
    \o (IF ClientHost \in DOMAIN hosts THEN TableLines(hosts, ClientHost) ELSE <<>>)
    \o (IF OtherHost \in DOMAIN hosts THEN TableLines(hosts, OtherHost) ELSE <<>>)

\* the lines left when the first n bytes are taken away
RECURSIVE DropBytes(_, _)
DropBytes(lines, n) ==
    IF n = 0 \/ lines = <<>> THEN lines
    ELSE IF n >= LineLen(Head(lines)) THEN DropBytes(Tail(lines), n - LineLen(Head(lines)))
    ELSE <<[Head(lines) EXCEPT !.from = @ + n]>> \o Tail(lines)

\* a write of the bytes new at offset 0 of a file that holds old: the bytes
\* of old beyond the written ones stay
WriteAtStart(old, new) == new \o DropBytes(old, SizeOf(new))

\* what the parser reads in a line: the line itself while only spaces are
\* missing, nothing when only the newline is left, a key that is none of
\* TomlKeys when the line begins inside the name of its key, and an error
\* anywhere else (inside a header, at the "=" or inside the string)
Reads(line) ==
    CASE line.from <= Indent(line.kind) -> line.kind
      [] line.from = FullLen(line.kind) - 1 -> "blank"
      [] line.kind \in TomlKeys /\ line.from < FullLen(line.kind) - 8 -> "unknown"
      [] OTHER -> "error"

\* toml.DecodeFile over the lines from the i-th on; cur is the table the
\* keys belong to ("" before any header, "top" after "[host]"), tables the
\* tables read so far. A header or a key met twice is an error, and so is
\* a key next to the host tables, which is no table.
RECURSIVE DecodeLines(_, _, _, _, _)
DecodeLines(lines, i, cur, top, tables) ==
    IF i > Len(lines) THEN [ok |-> TRUE, tables |-> tables]
    ELSE LET line == lines[i]
             what == Reads(line)
             failed == [ok |-> FALSE, tables |-> <<>>]
         IN  CASE what = "error" -> failed
               [] what = "blank" -> DecodeLines(lines, i + 1, cur, top, tables)
               [] what = "top" ->
                    IF top THEN failed ELSE DecodeLines(lines, i + 1, "top", TRUE, tables)
               [] what = "table" ->
                    IF line.host \in DOMAIN tables THEN failed
                    ELSE DecodeLines(lines, i + 1, line.host, top,
                                     [h \in DOMAIN tables \cup {line.host} |->
                                         IF h = line.host THEN <<>> ELSE tables[h]])
               [] what = "unknown" ->
                    IF cur = "top" THEN failed ELSE DecodeLines(lines, i + 1, cur, top, tables)
               [] OTHER ->
                    IF cur = "top" THEN failed
                    ELSE IF cur = "" THEN DecodeLines(lines, i + 1, cur, top, tables)
                    ELSE IF what \in DOMAIN tables[cur] THEN failed
                    ELSE DecodeLines(lines, i + 1, cur, top,
                                     [tables EXCEPT ![cur] =
                                         [k \in DOMAIN tables[cur] \cup {what} |->
                                             IF k = what THEN line.val ELSE tables[cur][k]]])

\* the file that holds the lines, with what a load reads from it
FileOfLines(lines) ==
    LET read == DecodeLines(lines, 1, "", FALSE, <<>>)
    IN  [exists |-> TRUE, ok |-> read.ok, tables |-> read.tables, lines |-> lines]

\* the entries the file can have when the commands start
ShareFiles ==
    {FileOfLines(EncodeLines(SetHostCredentials(EmptyHosts, ClientHost, Cred("a1", "r1"))))}
    \cup {FileOfLines(EncodeLines(SetHostCredentials(
                           SetHostCredentials(EmptyHosts, OtherHost, o),
                           ClientHost, Cred("a1", "r1")))) :
            o \in {Cred("a1", "r1"), Cred("a2", "")}}

\* a command: where it stands, the GlobalConfig it holds in memory, the
\* entry it means its host to have in the file (ok = FALSE: none) and the
\* error it returned
Proc(cmd, host, resp) ==
    [pc |-> "load", cmd |-> cmd, host |-> host, resp |-> resp,
     hosts |-> EmptyHosts, want |-> [creds |-> Cred("", ""), ok |-> FALSE], err |-> ""]

InitShare ==
    /\ credFile \in ShareFiles
    /\ \E rf \in ShareResponses, cmd \in {"login", "logout"}, resp \in ShareResponses :
          procs = [p \in ProcIds |->
                      IF p = "sync" THEN Proc("refresh", ClientHost, rf)
                      ELSE Proc(cmd, OtherHost, IF cmd = "login" THEN resp ELSE rf)]
    /\ refreshFailed = FALSE
    /\ lastCall = NoCall
    /\ localFiles = <<>>
    /\ remoteFiles = <<>>
    /\ force = FALSE
    /\ deleteRemote = FALSE
    /\ dryRun = FALSE
    /\ plan = EmptyPlan
    /\ pc = "share"
    /\ maxSpace = 0
    /\ quota = NoQuota
    /\ server = <<>>
    /\ nDeleted = 0
    /\ nUploaded = 0
    /\ reqlog = <<>>
    /\ runErr = NoErr
    /\ history = <<>>
    /\ ScanIdle
    /\ StoreIdle
    /\ BatchIdle
    /\ login = NoLogin

\* the variables a step of one of the commands leaves alone
shareFrame == <<refreshFailed, lastCall, localFiles, remoteFiles, force, deleteRemote,
                dryRun, plan, pc, maxSpace, quota, server, nDeleted, nUploaded, reqlog,
                runErr, history, scanVars, storeVars, batchVars, login>>

\* LoadGlobalConfig and the lookup that follows it: refreshTokenIfNeeded
\* returns without a refresh token, logout without an entry to remove
ProcLoaded(me, res) ==
    LET got == GetHostCredentials(res.Hosts, me.host)
    IN  IF res.err # ""
        THEN [me EXCEPT !.pc = "done",
                        !.err = IF me.cmd = "refresh" THEN ErrLoadCreds ELSE ErrLoadConfig]
        ELSE IF me.cmd = "refresh" /\ (~got.ok \/ got.creds.RefreshToken = "")
        THEN [me EXCEPT !.pc = "done", !.err = ErrNoRefreshToken]
        ELSE IF me.cmd = "logout" /\ ~got.ok
        THEN [me EXCEPT !.pc = "done", !.hosts = res.Hosts]
        ELSE [me EXCEPT !.pc = "modify", !.hosts = res.Hosts]

ProcLoad ==
    /\ pc = "share"
    /\ \E p \in ProcIds :
          /\ procs[p].pc = "load"
          /\ procs' = [procs EXCEPT ![p] = ProcLoaded(procs[p], LoadGlobalConfig(credFile))]
    /\ UNCHANGED <<credFile, shareFrame>>

\* the change made to the GlobalConfig in memory: SetHostCredentials with
\* the refreshed or the new credentials, or DeleteHostCredentials
ProcModified(me) ==
    LET old == GetHostCredentials(me.hosts, me.host).creds
        new == CASE me.cmd = "refresh" -> RefreshedCreds(old, me.resp)
                 [] OTHER -> Cred(me.resp.access, me.resp.refresh)
    IN  IF me.cmd = "logout"
        THEN [me EXCEPT !.pc = "trunc", !.hosts = DeleteHostCredentials(me.hosts, me.host),
                        !.want = [creds |-> Cred("", ""), ok |-> FALSE]]
        ELSE [me EXCEPT !.pc = "trunc", !.hosts = SetHostCredentials(me.hosts, me.host, new),
                        !.want = [creds |-> new, ok |-> TRUE]]

ProcModify ==
    /\ pc = "share"
    /\ \E p \in ProcIds :
          /\ procs[p].pc = "modify"
          /\ procs' = [procs EXCEPT ![p] = ProcModified(procs[p])]
    /\ UNCHANGED <<credFile, shareFrame>>

\* SaveGlobalConfig, os.OpenFile with O_TRUNC: the file has no bytes, and
\* the command holds a descriptor at offset 0
ProcTruncate ==
    /\ pc = "share"
    /\ \E p \in ProcIds :
          /\ procs[p].pc = "trunc"
          /\ credFile' = FileOfLines(<<>>)
          /\ procs' = [procs EXCEPT ![p].pc = "write"]
    /\ UNCHANGED shareFrame

\* SaveGlobalConfig, encoder.Encode: the encoding of the GlobalConfig the
\* command has in memory is written at the offset of its descriptor, over
\* what the other command has written since the truncation
ProcWrite ==
    /\ pc = "share"
    /\ \E p \in ProcIds :
          /\ procs[p].pc = "write"
          /\ credFile' = FileOfLines(WriteAtStart(credFile.lines,
                                                  EncodeLines(procs[p].hosts)))
          /\ procs' = [procs EXCEPT ![p].pc = "done"]
    /\ UNCHANGED shareFrame

NextShare == ProcLoad \/ ProcModify \/ ProcTruncate \/ ProcWrite

SpecShare == InitShare /\ [][NextShare]_vars

(***************************************************************************)
(* SpecLogout: LogoutCmd.Run, any number of times                          *)
(***************************************************************************)
ErrSaveConfig == "failed to save config"

\* LogoutCmd.Run for the host resolved from the flag, efmrl.toml or the
\* default; all is the --all flag, outcome what SaveGlobalConfig meets.
\* saved tells whether SaveGlobalConfig was called
logout(file, host, all, outcome) ==
    LET save(hosts) ==
            LET done(res) == [err |-> IF res.err # "" THEN ErrSaveConfig ELSE "",
                              file |-> res.file, saved |-> TRUE]
            IN  done(SaveGlobalConfig(file, hosts, outcome))
        loaded(gc) ==
            IF gc.err # "" THEN [err |-> ErrLoadConfig, file |-> file, saved |-> FALSE]
            ELSE IF all
            THEN IF Cardinality(DOMAIN gc.Hosts) = 0
                 THEN [err |-> "", file |-> file, saved |-> FALSE]
                 ELSE save(EmptyHosts)
            ELSE IF ~GetHostCredentials(gc.Hosts, host).ok
            THEN [err |-> "", file |-> file, saved |-> FALSE]
            ELSE save(DeleteHostCredentials(gc.Hosts, host))
    IN  loaded(LoadGlobalConfig(file))

\* the stores a logout can find: any entry or none for each host, no file,
\* or an unparseable file
LogoutFiles ==
    {FileOf(hosts) : hosts \in UNION {[D -> StoreCreds] : D \in SUBSET Hosts}}
    \cup {NoFile, CorruptFile}

InitLogout ==
    /\ credFile \in LogoutFiles
    /\ refreshFailed = FALSE
    /\ lastCall = NoCall
    /\ localFiles = <<>>
    /\ remoteFiles = <<>>
    /\ force = FALSE
    /\ deleteRemote = FALSE
    /\ dryRun = FALSE
    /\ plan = EmptyPlan
    /\ pc = "logout"
    /\ maxSpace = 0
    /\ quota = NoQuota
    /\ server = <<>>
    /\ nDeleted = 0
    /\ nUploaded = 0
    /\ reqlog = <<>>
    /\ runErr = NoErr
    /\ history = <<>>
    /\ ScanIdle
    /\ StoreIdle
    /\ BatchIdle
    /\ CmdIdle

\* one run of the logout command
Logout ==
    /\ pc = "logout"
    /\ \E host \in Hosts, all \in BOOLEAN, outcome \in SaveOutcomes :
          \E res \in {logout(credFile, host, all, outcome)} :
              /\ credFile' = res.file
              /\ storeOp' = StoreOp(IF all THEN "logout_all" ELSE "logout", host,
                                    Cred("", ""), res.saved, res.err)
    /\ UNCHANGED <<refreshFailed, lastCall, localFiles, remoteFiles, force,
                   deleteRemote, dryRun, plan, pc, maxSpace, quota, server, nDeleted,
                   nUploaded, reqlog, runErr, history, scanVars, batchVars, cmdVars, config>>

NextLogout == Logout

SpecLogout == InitLogout /\ [][NextLogout]_vars

(***************************************************************************)
(* SpecLogin: LoginCmd.Run, the device authorization flow                  *)
(***************************************************************************)
\* the shortest poll interval, in seconds
MinPollInterval == 5

\* what a slow_down adds to the poll interval, in seconds
SlowDownStep == 5

ErrInitiate == "failed to initiate device authorization"

ErrDeviceExpired == "device code expired, please try again"

ErrAuthFailed == "authentication failed"

ErrNoIDToken == "Google did not return an ID token"

ErrSaveCreds == "failed to save credentials"

\* the interval and the lifetime, in seconds, of the device code response
LoginIntervals == {0, 5, 10}

LoginLifetimes == {-1, 0, 10, 20}

\* the seconds a poll request takes
PollDurations == {0, 1}

\* what the token endpoint answers to a poll: a token response, one of the
\* two poll errors, or a fatal error (expired_token, access_denied, another
\* error code, a network or parse error)
PollAnswers == {"token", "authorization_pending", "slow_down", "expired_token",
                "access_denied", "error"}

\* IsPollError(err): the answers the loop goes on after
IsPollError(answer) == answer \in {"authorization_pending", "slow_down"}

\* the tokens of a token response: for Google the ID token and the refresh
\* token, for WorkOS the access and the refresh token
TokenResponses == [access : {"", "a2"}, refresh : {"", "r2"}]

\* the stores a login can find
LoginFiles ==
    {NoFile, CorruptFile,
     FileOf(SetHostCredentials(EmptyHosts, ClientHost, Cred("a1", "r1"))),
     FileOf(SetHostCredentials(EmptyHosts, OtherHost, OtherCred))}

InitLogin ==
    /\ credFile \in LoginFiles
    /\ \E provider \in {"google", "workos"} :
          login = [NoLogin EXCEPT !.pc = "code", !.provider = provider, !.host = ClientHost]
    /\ procs = NoProcs
    /\ refreshFailed = FALSE
    /\ lastCall = NoCall
    /\ localFiles = <<>>
    /\ remoteFiles = <<>>
    /\ force = FALSE
    /\ deleteRemote = FALSE
    /\ dryRun = FALSE
    /\ plan = EmptyPlan
    /\ pc = "login"
    /\ maxSpace = 0
    /\ quota = NoQuota
    /\ server = <<>>
    /\ nDeleted = 0
    /\ nUploaded = 0
    /\ reqlog = <<>>
    /\ runErr = NoErr
    /\ history = <<>>
    /\ ScanIdle
    /\ StoreIdle
    /\ BatchIdle

\* the variables the device flow leaves alone
loginFrame == <<localFiles, remoteFiles, force, deleteRemote, dryRun, plan, pc, maxSpace,
                quota, server, nDeleted, nUploaded, reqlog, runErr, history, scanVars,
                storeVars, batchVars, procs>>

\* pollInterval on entry to the loop: deviceCode.Interval, at least 5 s
pollInterval(interval) == IF interval < MinPollInterval THEN MinPollInterval ELSE interval

\* time.Now().After(expiresAt) at the head of a pass of the loop. The clock
\* is read twice: once for expiresAt, when the device code response has been
\* shown, and again at every test. l.now counts the whole seconds the polls
\* and the sleeps have taken since the first reading; the reading of the
\* test is later than the first one by these seconds and by the time the
\* statements in between take, which is more than nothing and less than a
\* second. So the test holds as soon as l.now has reached l.expiresAt: a code
\* whose lifetime is 0 s or less has expired at the first test
Expired(l) == l.now >= l.expiresAt

\* steps 1 to 3: the device code is requested and shown; expiresAt is the
\* clock reading after it plus the lifetime of the code
LoginRequestCode ==
    /\ login.pc = "code"
    /\ \E ok \in BOOLEAN, interval \in LoginIntervals, expiresIn \in LoginLifetimes :
          login' = IF ~ok THEN [login EXCEPT !.pc = "done", !.err = ErrInitiate]
                   ELSE [login EXCEPT !.pc = "poll", !.interval = pollInterval(interval),
                                      !.expiresAt = login.now + expiresIn]
    /\ UNCHANGED <<clientVars, loginFrame>>

\* the loop continued at once after a poll error, before the interval is
\* adjusted and the sleep is taken
afterPoll_ContinuesAtOnce(l, answer, took) ==
    IF Expired(l) THEN [l EXCEPT !.pc = "done", !.err = ErrDeviceExpired]
    ELSE IF answer = "token" THEN [l EXCEPT !.pc = "save", !.answer = answer]
    ELSE IF IsPollError(answer)
    THEN [l EXCEPT !.now = l.now + took, !.answer = answer]
    ELSE [l EXCEPT !.pc = "done", !.err = ErrAuthFailed, !.answer = answer]

\* step 4, one pass of the polling loop: the expiry test, the poll that
\* takes took seconds and, after a poll error, the sleep
afterPoll(l, answer, took) ==
    IF Expired(l) THEN [l EXCEPT !.pc = "done", !.err = ErrDeviceExpired]
    ELSE IF answer = "token" THEN [l EXCEPT !.pc = "save", !.answer = answer]
    ELSE IF IsPollError(answer)
    THEN LET slept(interval) == [l EXCEPT !.interval = interval,
                                          !.now = l.now + took + interval,
                                          !.answer = answer]
         IN  slept(IF answer = "slow_down" THEN l.interval + SlowDownStep ELSE l.interval)
    ELSE [l EXCEPT !.pc = "done", !.err = ErrAuthFailed, !.answer = answer]

LoginPoll ==
    /\ login.pc = "poll"
    /\ \E answer \in PollAnswers, took \in PollDurations, token \in TokenResponses :
          \E next \in {afterPoll(login, answer, took)} :
              login' = IF next.pc = "save" THEN [next EXCEPT !.token = token] ELSE next
    /\ UNCHANGED <<clientVars, loginFrame>>

\* the credentials saved whatever the token response holds
saveLogin_NoTokenCheck(l, file, outcome) ==
    LET creds == Cred(l.token.access, l.token.refresh)
        loaded(gc) ==
            LET saved(res) ==
                    IF res.err # ""
                    THEN [login |-> [l EXCEPT !.pc = "done", !.err = ErrSaveCreds],
                          file |-> res.file]
                    ELSE [login |-> [l EXCEPT !.pc = "verify"], file |-> res.file]
            IN  saved(SaveGlobalConfig(file, SetHostCredentials(gc.Hosts, l.host, creds),
                                       outcome))
    IN  loaded(LoadGlobalConfig(file))

\* step 5: the test for Google's ID token, LoadGlobalConfig,
\* SetHostCredentials and SaveGlobalConfig
saveLogin(l, file, outcome) ==
    LET creds == Cred(l.token.access, l.token.refresh)
        loaded(gc) ==
            LET saved(res) ==
                    IF res.err # ""
                    THEN [login |-> [l EXCEPT !.pc = "done", !.err = ErrSaveCreds],
                          file |-> res.file]
                    ELSE [login |-> [l EXCEPT !.pc = "verify"], file |-> res.file]
            IN  IF l.provider = "google" /\ l.token.access = ""
                THEN [login |-> [l EXCEPT !.pc = "done", !.err = ErrNoIDToken], file |-> file]
                ELSE IF gc.err # ""
                THEN [login |-> [l EXCEPT !.pc = "done", !.err = ErrLoadConfig], file |-> file]
                ELSE saved(SaveGlobalConfig(file, SetHostCredentials(gc.Hosts, l.host, creds),
                                            outcome))
    IN  loaded(LoadGlobalConfig(file))

LoginSave ==
    /\ login.pc = "save"
    /\ \E outcome \in SaveOutcomes :
          \E res \in {saveLogin(login, credFile, outcome)} :
              /\ login' = res.login
              /\ credFile' = res.file
    /\ UNCHANGED <<refreshFailed, lastCall, loginFrame>>

\* verifyAndPrint: GET /api/session with a new APIClient; its result is
\* only reported and the command returns nil
LoginVerify ==
    /\ login.pc = "verify"
    /\ \E env \in RunRequestEnvs :
          \E res \in {doRequest(FALSE, credFile, login.host, "GET", "/api/session",
                                env.r1, env.rf, env.r2)} :
              /\ lastCall' = CallOf("doRequest", "GET", "/api/session", FALSE, res)
              /\ refreshFailed' = res.refreshFailed
              /\ credFile' = res.file
    /\ login' = [login EXCEPT !.pc = "done"]
    /\ UNCHANGED loginFrame

NextLogin == LoginRequestCode \/ LoginPoll \/ LoginSave \/ LoginVerify

SpecLogin == InitLogin /\ [][NextLogin]_vars

\* the command is not suspended for ever: a step it can take is taken
SpecLoginLive == InitLogin /\ [][NextLogin]_vars /\ WF_vars(NextLogin)

(***************************************************************************)
(* Properties of the executor                                              *)
(***************************************************************************)
\* the log entry is a DELETE or PUT that sent at least one request
Issued(e, method) == e.method = method /\ e.sends > 0

\* C1: no PUT is issued before every deletion of the plan has completed
\* successfully, and no DELETE is issued after a PUT
C1_DeletesBeforeUploads ==
    /\ \A i, j \in DOMAIN reqlog :
          (Issued(reqlog[i], "PUT") /\ Issued(reqlog[j], "DELETE")) => j < i
    /\ \A i \in DOMAIN reqlog :
          Issued(reqlog[i], "PUT") =>
              \A k \in DOMAIN plan.ToDelete :
                  \E j \in 1..(i - 1) :
                      /\ reqlog[j].method = "DELETE"
                      /\ reqlog[j].path = plan.ToDelete[k].Path
                      /\ reqlog[j].err = ""

C1_Witness ==
    \E i, j, k \in DOMAIN reqlog :
        /\ i < j /\ j < k
        /\ Issued(reqlog[i], "DELETE") /\ Issued(reqlog[j], "DELETE")
        /\ Issued(reqlog[k], "PUT")

Mutation(e) == e.method \in {"DELETE", "PUT"}

\* C2: a deletion or upload that fails is the last operation of the run,
\* which ends with that error; every deletion and upload completed before it
\* is still in effect in the remote store
C2_StopAtFirstFailure ==
    /\ \A i \in DOMAIN reqlog :
          (Mutation(reqlog[i]) /\ reqlog[i].err # "") =>
              /\ i = Len(reqlog)
              /\ pc = "done"
              /\ runErr.msg = (IF reqlog[i].method = "DELETE" THEN "failed to delete"
                               ELSE "failed to upload")
              /\ runErr.path = reqlog[i].path
              /\ runErr.cause = reqlog[i].err
    /\ \A i \in DOMAIN reqlog :
          (Mutation(reqlog[i]) /\ reqlog[i].err = "") =>
              IF reqlog[i].method = "DELETE"
              THEN reqlog[i].path \notin PathsOf(server)
              ELSE \E k \in DOMAIN plan.ToUpload :
                      /\ plan.ToUpload[k].Path = reqlog[i].path
                      /\ RemoteFile(reqlog[i].path, plan.ToUpload[k].ETag) \in RangeOf(server)

C2_Witness ==
    /\ pc = "done"
    /\ runErr.msg = "failed to upload"
    /\ nUploaded < Len(plan.ToUpload) - 1
    /\ Len(reqlog) >= 4
    /\ reqlog[3].method = "DELETE" /\ reqlog[3].err = ""
    /\ reqlog[3].path \notin PathsOf(server)
    /\ reqlog[Len(reqlog)].err # ""

(***************************************************************************)
(* Properties of the transport                                             *)
(***************************************************************************)
SendsOf(t) == {i \in DOMAIN t : t[i].ev = "send"}

RefreshesOf(t) == {i \in DOMAIN t : t[i].ev = "refresh"}

\* refreshTokenIfNeeded was called and returned nil: the save was written
RefreshSucceeded(t) == \E i \in DOMAIN t : t[i].ev = "save" /\ t[i].what = "ok"

\* refreshTokenIfNeeded was called and returned an error
RefreshFailedIn(t) == RefreshesOf(t) # {} /\ ~RefreshSucceeded(t)

FirstSend(t) == t[CHOOSE i \in SendsOf(t) : \A j \in SendsOf(t) : i <= j]

LastSend(t) == t[CHOOSE i \in SendsOf(t) : \A j \in SendsOf(t) : j <= i]

\* the first exchange of the call returned a response with status 401
FirstWas401(t) == SendsOf(t) # {} /\ FirstSend(t).status = 401

\* the call returned to its caller what the last exchange produced
ReturnedLastExchange(call) ==
    IF LastSend(call.trace).status = NetErr
    THEN call.err \in {ErrRequestFailed, ErrRetryFailed}
    ELSE call.err = "" /\ call.status = LastSend(call.trace).status

\* C3: every doRequest attempts at most one refresh and sends at most twice,
\* and when the first response is 401 and the refresh succeeds the request is
\* sent exactly once more and that second outcome is returned as it is
C3_RetryExactlyOnce ==
    lastCall.op = "doRequest" =>
        /\ Cardinality(RefreshesOf(lastCall.trace)) <= 1
        /\ Cardinality(SendsOf(lastCall.trace)) <= 2
        /\ (FirstWas401(lastCall.trace) /\ RefreshSucceeded(lastCall.trace)) =>
              /\ Cardinality(SendsOf(lastCall.trace)) = 2
              /\ ReturnedLastExchange(lastCall)

\* C4: a call made with a client whose refresh has already failed attempts no
\* refresh, and a 401 it receives ends it at once with the session-expired
\* error
C4_NoRefreshAfterFailure ==
    (lastCall.op # "none" /\ lastCall.flagBefore) =>
        /\ RefreshesOf(lastCall.trace) = {}
        /\ FirstWas401(lastCall.trace) =>
              /\ lastCall.err = ErrSessionExpired
              /\ Cardinality(SendsOf(lastCall.trace)) = 1

\* C5: a call in which the refresh failed leaves the client's refresh-failed
\* flag set and returns the session-expired error after a single send
C5_RefreshFailureMarksClient ==
    (lastCall.op # "none" /\ RefreshFailedIn(lastCall.trace)) =>
        /\ refreshFailed
        /\ lastCall.err = ErrSessionExpired
        /\ Cardinality(SendsOf(lastCall.trace)) = 1

\* the first exchange of the call returned a response other than 401
FirstNot401(t) == SendsOf(t) # {} /\ FirstSend(t).status \notin {NetErr, 401}

\* C6: a doRequest whose first response is not 401 returns that response
\* after one send and no refresh, and changes neither the refresh-failed flag
\* nor the credentials file
C6_Non401ReturnedVerbatim ==
    [][(lastCall'.op = "doRequest" /\ FirstNot401(lastCall'.trace)) =>
          /\ lastCall'.err = ""
          /\ lastCall'.status = FirstSend(lastCall'.trace).status
          /\ Len(lastCall'.trace) = 1
          /\ refreshFailed' = refreshFailed
          /\ credFile' = credFile]_vars

C6_Witness ==
    /\ lastCall.op = "doRequest"
    /\ Len(lastCall.trace) = 1
    /\ lastCall.trace[1].status = 500
    /\ lastCall.status = 500

\* the save of a refreshed credential was attempted and failed
SaveFailedIn(t) == \E i \in DOMAIN t : t[i].ev = "save" /\ t[i].what # "ok"

\* C7: a retried request is only sent after the refreshed credential has been
\* saved, and carries the token then in the file; when the save fails there is
\* no retry and the call ends with the refresh-failure error
C7_SavedBeforeRetry ==
    lastCall.op # "none" =>
        /\ \A i \in SendsOf(lastCall.trace) :
              (\E j \in SendsOf(lastCall.trace) : j < i) =>
                  /\ \E k \in 1..(i - 1) :
                        lastCall.trace[k].ev = "save" /\ lastCall.trace[k].what = "ok"
                  /\ LoadGlobalConfig(credFile).err = ""
                  /\ ClientHost \in DOMAIN LoadGlobalConfig(credFile).Hosts
                  /\ LoadGlobalConfig(credFile).Hosts[ClientHost].AccessToken
                         = lastCall.trace[i].bearer
        /\ SaveFailedIn(lastCall.trace) =>
              /\ Cardinality(SendsOf(lastCall.trace)) = 1
              /\ lastCall.op = "doRequest" => (refreshFailed /\ lastCall.err = ErrSessionExpired)
              /\ lastCall.op = "uploadFile" => lastCall.err = ErrRefreshCreds

C7_Witness ==
    /\ lastCall.op # "none"
    /\ Cardinality(SendsOf(lastCall.trace)) = 2
    /\ RefreshSucceeded(lastCall.trace)
    /\ FirstSend(lastCall.trace).bearer # LastSend(lastCall.trace).bearer

(***************************************************************************)
(* Properties of the planner                                               *)
(***************************************************************************)
\* the position of the remote entry that stands for its path: the only one,
\* or the last one when the listing repeats the path
StandsForPath(remote, j) ==
    \A k \in DOMAIN remote : remote[k].Path = remote[j].Path => k <= j

\* the local entry must be sent: no remote entry has its path, or force is
\* set, or the remote entry standing for its path has another fingerprint
MustUpload(lf, remote, forced) ==
    \/ \A j \in DOMAIN remote : remote[j].Path # lf.Path
    \/ forced
    \/ \E j \in DOMAIN remote :
          /\ remote[j].Path = lf.Path
          /\ StandsForPath(remote, j)
          /\ remote[j].ETag # lf.ETag

\* C8: each local entry is in toUpload exactly when it is absent remotely, or
\* force is set, or its fingerprint is not the very same string as the remote
\* one; otherwise its path is in unchanged; with force nothing is unchanged
C8_UploadClassification ==
    pc = "planned" =>
        /\ \A i \in DOMAIN localFiles :
              /\ localFiles[i] \in RangeOf(plan.ToUpload)
                    <=> MustUpload(localFiles[i], remoteFiles, force)
              /\ localFiles[i].Path \in RangeOf(plan.Unchanged)
                    <=> ~MustUpload(localFiles[i], remoteFiles, force)
        /\ force => plan.Unchanged = <<>>

C8_Witness ==
    /\ pc = "planned"
    /\ ~force
    /\ plan.Unchanged # <<>>
    /\ \E i \in DOMAIN plan.ToUpload, j \in DOMAIN remoteFiles :
          /\ plan.ToUpload[i].Path = remoteFiles[j].Path
          /\ plan.ToUpload[i].ETag = "abc"
          /\ remoteFiles[j].ETag = "ABC"

RemoteOnlyPaths(local, remote) == PathsOf(remote) \ PathsOf(local)

\* C9: with deleteRemote, toDelete lists once each remote path that no local
\* entry has, by the remote entry standing for it, and nothing else; without
\* deleteRemote it is empty
C9_DeletionSet ==
    pc = "planned" =>
        /\ deleteRemote =>
              /\ PathsOf(plan.ToDelete) = RemoteOnlyPaths(localFiles, remoteFiles)
              /\ UniquePaths(plan.ToDelete)
              /\ RangeOf(plan.ToDelete) =
                    {remoteFiles[j] : j \in {k \in DOMAIN remoteFiles :
                        /\ remoteFiles[k].Path \notin PathsOf(localFiles)
                        /\ StandsForPath(remoteFiles, k)}}
        /\ ~deleteRemote => plan.ToDelete = <<>>

C9_Witness ==
    /\ pc = "planned"
    /\ deleteRemote
    /\ localFiles # <<>>
    /\ Len(plan.ToDelete) = 2

UploadPaths == PathsOf(plan.ToUpload)

DeletePaths == PathsOf(plan.ToDelete)

UnchangedPaths == RangeOf(plan.Unchanged)

\* C10: the path sets of toUpload, toDelete and unchanged are pairwise
\* disjoint and together are the local paths plus, with deleteRemote only,
\* the remote-only paths; empty manifests give an empty plan
C10_PlanCoversInputs ==
    pc = "planned" =>
        /\ UploadPaths \cap DeletePaths = {}
        /\ UploadPaths \cap UnchangedPaths = {}
        /\ DeletePaths \cap UnchangedPaths = {}
        /\ UploadPaths \cup DeletePaths \cup UnchangedPaths =
              PathsOf(localFiles) \cup
              (IF deleteRemote THEN RemoteOnlyPaths(localFiles, remoteFiles) ELSE {})
        /\ (localFiles = <<>> /\ remoteFiles = <<>>) => plan = EmptyPlan

C10_Witness ==
    /\ pc = "planned"
    /\ plan.ToUpload # <<>>
    /\ plan.ToDelete # <<>>
    /\ plan.Unchanged # <<>>

\* the number of entries of the three collections that carry the path
PlanOccurrences(p) ==
    Cardinality({i \in DOMAIN plan.ToUpload : plan.ToUpload[i].Path = p})
    + Cardinality({i \in DOMAIN plan.ToDelete : plan.ToDelete[i].Path = p})
    + Cardinality({i \in DOMAIN plan.Unchanged : plan.Unchanged[i] = p})

\* C11 as stated: every path of the local or of the remote manifest occurs
\* exactly once in toUpload, toDelete and unchanged taken together
C11_PartitionsUnion ==
    pc = "planned" =>
        \A p \in PathsOf(localFiles) \cup PathsOf(remoteFiles) : PlanOccurrences(p) = 1

\* C11 amended: a local path occurs exactly once in the three collections; a
\* remote-only path occurs exactly once (in toDelete) when deleteRemote is
\* set and in no collection when it is not; no other path occurs
C11_PartitionsPlannedPaths ==
    pc = "planned" =>
        \A p \in Paths :
            PlanOccurrences(p) =
                IF p \in PathsOf(localFiles) THEN 1
                ELSE IF p \in PathsOf(remoteFiles) /\ deleteRemote THEN 1
                ELSE 0

C11_Witness ==
    /\ pc = "planned"
    /\ ~deleteRemote
    /\ localFiles # <<>>
    /\ RemoteOnlyPaths(localFiles, remoteFiles) # {}
    /\ \A p \in RemoteOnlyPaths(localFiles, remoteFiles) : PlanOccurrences(p) = 0

(***************************************************************************)
(* Properties of the quota guard                                           *)
(***************************************************************************)
\* the sum of the sizes of the manifest's entries
TotalSize(files) == SumSizes(files, 1)

QuotaRejected == runErr.msg = "local directory size exceeds efmrl quota"

\* the clauses of the quota guard that hold for every quota document
QuotaGuardCore ==
    /\ QuotaRejected <=> TotalSize(localFiles) > quota.MaxSpace
    /\ ~QuotaRejected <=> runErr = NoErr
    /\ TotalSize(localFiles) = quota.MaxSpace => runErr = NoErr
    /\ \A c \in QuotaCurrentSpaces, a \in QuotaAvailableSpaces :
          validateQuota(localFiles, QuotaInfo(c, quota.MaxSpace, a))
              = validateQuota(localFiles, quota)

\* C12 as stated: validateQuota returns an error exactly when the sum of the
\* sizes is strictly greater than MaxSpace; a sum equal to MaxSpace passes;
\* an empty file list always passes; the values of CurrentSpace and
\* AvailableSpace have no influence
C12_EmptyListAlwaysPasses ==
    pc = "validated" =>
        /\ QuotaGuardCore
        /\ localFiles = <<>> => runErr = NoErr

\* C12, amended: validateQuota returns an error exactly when the sum of the
\* sizes is strictly greater than MaxSpace; a sum equal to MaxSpace passes;
\* an empty file list passes exactly when MaxSpace >= 0 (its total 0 is
\* strictly greater than a negative MaxSpace, and then it is rejected); the
\* values of CurrentSpace and AvailableSpace have no influence
C12_QuotaGuard ==
    pc = "validated" =>
        /\ QuotaGuardCore
        /\ localFiles = <<>> => (runErr = NoErr <=> quota.MaxSpace >= 0)
        /\ (localFiles = <<>> /\ quota.MaxSpace < 0) => QuotaRejected

\* an empty file list checked against MaxSpace = 0: the sum equals MaxSpace
\* and the list passes, whatever the other two fields hold
C12_Witness ==
    /\ pc = "validated"
    /\ localFiles = <<>>
    /\ TotalSize(localFiles) = quota.MaxSpace
    /\ runErr = NoErr
    /\ quota.CurrentSpace > quota.MaxSpace
    /\ quota.AvailableSpace < 0

\* a manifest with entries whose sizes add up to MaxSpace exactly
QuotaMetExactly ==
    /\ pc = "validated"
    /\ localFiles # <<>>
    /\ TotalSize(localFiles) = quota.MaxSpace
    /\ runErr = NoErr

\* an empty file list rejected by a quota document with a negative MaxSpace
EmptyListRejected ==
    /\ pc = "validated"
    /\ localFiles = <<>>
    /\ quota.MaxSpace < 0
    /\ QuotaRejected

\* the requests of the run that change the remote store
MutationsIssued == {i \in DOMAIN reqlog : reqlog[i].method \in {"DELETE", "PUT"}}

\* the quota check is over and has passed: the quota document was fetched and
\* decoded and validateQuota returned nil for it
QuotaCheckPassed ==
    /\ Len(reqlog) >= 1
    /\ reqlog[1].method = "GET" /\ reqlog[1].path = "/quota" /\ reqlog[1].err = ""
    /\ quota.MaxSpace = maxSpace
    /\ ~validateQuota(localFiles, quota)

\* C13: a DELETE or PUT is only issued after the quota check has completed
\* (the quota request is the first request of the run and every mutation
\* comes later), and a run whose local total exceeds maxSpace issues no
\* DELETE and no PUT and ends with an error, whatever force, delete and
\* dry-run are
C13_QuotaBeforeMutation ==
    /\ MutationsIssued # {} => (QuotaCheckPassed /\ \A i \in MutationsIssued : i > 1)
    /\ pc = "exec" => QuotaCheckPassed
    /\ TotalSize(localFiles) > maxSpace =>
          /\ MutationsIssued = {}
          /\ pc \notin {"list", "plan", "exec"}
          /\ pc = "done" => runErr # NoErr

C13_Witness ==
    /\ pc = "done"
    /\ runErr.msg = "local directory size exceeds efmrl quota"
    /\ force /\ deleteRemote /\ ~dryRun
    /\ server # <<>>
    /\ localFiles # <<>>
    /\ MutationsIssued = {}

\* the run has ended with validateQuota's error
EndedWithQuotaViolation ==
    pc = "done" /\ runErr.msg = "local directory size exceeds efmrl quota"

\* C14 as stated: a run that ends with a quota violation has sent no request
C14_NoNetworkCallBeforeQuotaAbort ==
    EndedWithQuotaViolation =>
        \A i \in DOMAIN reqlog : reqlog[i].sends = 0

\* C14 amended: a run that ends with a quota violation has made exactly one
\* call to the site API, the GET of the quota document, answered with 200
\* (sent once, or twice around a token refresh); it has not listed the
\* remote files and has issued no DELETE and no PUT
C14_OnlyQuotaFetchBeforeQuotaAbort ==
    EndedWithQuotaViolation =>
        /\ Len(reqlog) = 1
        /\ reqlog[1].method = "GET" /\ reqlog[1].path = "/quota"
        /\ reqlog[1].err = "" /\ reqlog[1].sends \in {1, 2}
        /\ lastCall.path = "/quota" /\ lastCall.status = 200
        /\ quota.MaxSpace < TotalSize(localFiles)
        /\ remoteFiles = <<>> /\ plan = EmptyPlan

C14_Witness ==
    /\ EndedWithQuotaViolation
    /\ Len(reqlog) = 1
    /\ reqlog[1].sends = 2
    /\ RefreshSucceeded(lastCall.trace)

(***************************************************************************)
(* Properties of running the command again                                 *)
(***************************************************************************)
\* two runs of the command, one right after the other
ConsecutiveRuns == {k \in DOMAIN history : k + 1 \in DOMAIN history}

\* the paths of the deletions and of the uploads a run completed
DeletedBy(run) == {run.plan.ToDelete[i].Path : i \in 1..run.nDeleted}

UploadedBy(run) == {run.plan.ToUpload[i].Path : i \in 1..run.nUploaded}

\* the run carried out its whole plan
FullySuccessful(run) ==
    /\ run.planned /\ run.runErr = NoErr /\ ~dryRun
    /\ run.nDeleted = Len(run.plan.ToDelete)
    /\ run.nUploaded = Len(run.plan.ToUpload)

\* C15 as stated: the plan of the next run contains no deletion and no upload
\* that the earlier run completed, and after a fully successful run it has no
\* uploads and no deletions
C15_RerunPlansOnlyRemainder ==
    \A k \in ConsecutiveRuns :
        /\ DeletedBy(history[k]) \cap PathsOf(history[k + 1].plan.ToDelete) = {}
        /\ UploadedBy(history[k]) \cap PathsOf(history[k + 1].plan.ToUpload) = {}
        /\ FullySuccessful(history[k]) =>
              /\ history[k + 1].plan.ToUpload = <<>>
              /\ history[k + 1].plan.ToDelete = <<>>

\* C15 amended: the plan of the next run never contains a deletion the earlier
\* run completed and contains every deletion it did not complete; without
\* force it contains no upload the earlier run completed and every upload it
\* did not complete, and is empty after a fully successful run; with force it
\* contains every local file again, whatever the earlier run uploaded
C15_RerunPlansRemainderUnlessForced ==
    \A k \in ConsecutiveRuns :
        LET a == history[k]
            b == history[k + 1]
        IN  /\ DeletedBy(a) \cap PathsOf(b.plan.ToDelete) = {}
            /\ (a.planned /\ b.planned) =>
                  PathsOf(b.plan.ToDelete) = PathsOf(a.plan.ToDelete) \ DeletedBy(a)
            /\ ~force =>
                  /\ UploadedBy(a) \cap PathsOf(b.plan.ToUpload) = {}
                  /\ (a.planned /\ b.planned) =>
                        PathsOf(b.plan.ToUpload) = PathsOf(a.plan.ToUpload) \ UploadedBy(a)
                  /\ FullySuccessful(a) =>
                        (b.plan.ToUpload = <<>> /\ b.plan.ToDelete = <<>>)
            /\ (force /\ b.planned) =>
                  /\ b.plan.ToUpload = localFiles
                  /\ FullySuccessful(a) => b.plan.ToDelete = <<>>

C15_Witness ==
    /\ ~force /\ deleteRemote /\ ~dryRun
    /\ Len(history) = 2
    /\ history[1].nDeleted = 1 /\ history[1].nUploaded = 1
    /\ history[1].runErr # NoErr
    /\ history[2].planned
    /\ Len(history[2].plan.ToUpload) = 1
    /\ history[2].plan.ToDelete = <<>>

(***************************************************************************)
(* Properties of the dry-run mode                                          *)
(***************************************************************************)
\* C16: in a run with DryRun set no step changes the remote store, none
\* enters the executor, no DELETE and no PUT is issued, and the step that
\* computes and displays the plan ends the run with success, whatever the
\* plan holds
C16_DryRunLeavesRemoteAlone ==
    [][dryRun =>
          /\ server' = server
          /\ pc' # "exec"
          /\ \A i \in DOMAIN reqlog' : reqlog'[i].method \notin {"DELETE", "PUT"}
          /\ nDeleted' = 0 /\ nUploaded' = 0
          /\ pc = "plan" => (pc' = "done" /\ runErr' = NoErr)]_vars

C16_Witness ==
    /\ dryRun
    /\ pc = "done"
    /\ runErr = NoErr
    /\ plan.ToDelete # <<>>
    /\ plan.ToUpload # <<>>
    /\ MutationsIssued = {}
    /\ server = remoteFiles

(***************************************************************************)
(* Properties of the order of operations                                   *)
(***************************************************************************)
\* the position of the path in the manifest (0 when absent)
IndexOfPath(files, p) ==
    IF p \in PathsOf(files) THEN CHOOSE i \in DOMAIN files : files[i].Path = p ELSE 0

\* the entries of list are entries of manifest, in the manifest's order
InOrderOf(list, manifest) ==
    /\ \A i \in DOMAIN list : list[i] \in RangeOf(manifest)
    /\ \A i, j \in DOMAIN list :
          i < j => IndexOfPath(manifest, list[i].Path) < IndexOfPath(manifest, list[j].Path)

\* the paths of the requests of the run with the given method, in the order
\* in which they were issued
PathsIssued(method) ==
    LET sel == SelectSeq(reqlog, LAMBDA e : e.method = method)
    IN  [i \in DOMAIN sel |-> sel[i].path]

\* seq is the beginning of the paths of the list
IsPrefixOfPaths(seq, list) ==
    /\ Len(seq) <= Len(list)
    /\ \A i \in DOMAIN seq : seq[i] = list[i].Path

\* C17: toUpload lists local entries in the order of the local manifest, and
\* the PUTs of the run are issued for the entries of toUpload in its order,
\* one per entry
C17_UploadsInScanOrder ==
    /\ InOrderOf(plan.ToUpload, localFiles)
    /\ IsPrefixOfPaths(PathsIssued("PUT"), plan.ToUpload)
    /\ (pc = "done" /\ runErr = NoErr /\ ~dryRun /\ plan # EmptyPlan) =>
          Len(PathsIssued("PUT")) = Len(plan.ToUpload)

C17_Witness ==
    /\ pc = "done"
    /\ runErr = NoErr
    /\ Len(plan.ToUpload) = 2
    /\ PathsIssued("PUT") = <<localFiles[1].Path, localFiles[2].Path>>

\* C18: toDelete lists the remote-only entries in the relative order of the
\* remote listing (for a listing without repeated paths), so that the same
\* inputs always give the same toDelete
C18_DeletionsInListingOrder ==
    (pc = "planned" /\ UniquePaths(remoteFiles)) =>
        InOrderOf(plan.ToDelete, remoteFiles)

(***************************************************************************)
(* Properties of the credential store                                      *)
(***************************************************************************)
\* the refresh token sent to the identity provider during the call: the one
\* stored before the refresh
RefreshTokenSent(t) == t[CHOOSE i \in DOMAIN t : t[i].ev = "provider"].bearer

\* C19: after a successful refresh, with any provider, the stored entry of
\* the host holds a refresh token: the one of the response, or the previous
\* one when the response has none; never the empty value
C19_RefreshTokenNeverEmptied ==
    (lastCall.op # "none" /\ RefreshSucceeded(lastCall.trace)) =>
        /\ ClientHost \in DOMAIN LoadGlobalConfig(credFile).Hosts
        /\ RefreshTokenSent(lastCall.trace) # ""
        /\ LoadGlobalConfig(credFile).Hosts[ClientHost].RefreshToken # ""

\* the branch of the switch that asks Google keeps a refresh token in the
\* stored entry
GoogleRefreshKeepsRefreshToken ==
    (lastCall.op # "none" /\ RefreshSucceeded(lastCall.trace)
        /\ \E i \in DOMAIN lastCall.trace :
               lastCall.trace[i].ev = "provider" /\ lastCall.trace[i].what = "google") =>
        /\ ClientHost \in DOMAIN LoadGlobalConfig(credFile).Hosts
        /\ LoadGlobalConfig(credFile).Hosts[ClientHost].RefreshToken # ""

\* C20: a transport call that ends without a successful refresh (no refresh
\* attempted, or refreshTokenIfNeeded returned an error) leaves the
\* credentials file exactly as it was before the call
C20_StoreWrittenOnlyOnRefreshSuccess ==
    [][~RefreshSucceeded(lastCall'.trace) => credFile' = credFile]_vars

(***************************************************************************)
(* Properties of the scanner                                               *)
(***************************************************************************)
\* the manifest path of a node: "/" before each name
UrlPathOf(path) == [i \in 1..(2 * Len(path)) |-> IF i % 2 = 1 THEN "/" ELSE path[i \div 2]]

\* some name on the way from the root to the node begins with "."
HiddenPath(path) == \E i \in DOMAIN path : HasDotPrefix(path[i])

\* the regular files of the tree that have no hidden component
VisibleFiles(t) == {p \in DOMAIN t.kind : t.kind[p] = "file" /\ ~HiddenPath(p)}

ScanSucceeded == pc = "scanned" /\ runErr = NoErr

ScanFailed == pc = "scanned" /\ runErr # NoErr

\* C21: a successful scan returns one entry for each regular file without a
\* hidden component and no other entry, and the path of an entry is "/"
\* followed by the names from the root joined by "/", whatever the
\* separator of the platform is
C21_ScanListsVisibleFiles ==
    ScanSucceeded =>
        /\ {localFiles[i].Path : i \in DOMAIN localFiles}
              = {UrlPathOf(p) : p \in VisibleFiles(tree)}
        /\ Len(localFiles) = Cardinality(VisibleFiles(tree))
        /\ \A i \in DOMAIN localFiles :
              /\ localFiles[i].Path[1] = "/"
              /\ \A j \in DOMAIN localFiles[i].Path : localFiles[i].Path[j] # "\\"

\* the root is a directory for os.Lstat
RootIsDirectory == tree.kind[<<>>] = "dir"

\* the same for the scans whose root is a directory itself
ScanOfDirectoryListsVisibleFiles == RootIsDirectory => C21_ScanListsVisibleFiles

\* a scan through a symbolic link ends without an error and without a file
ScanOfLinkListsNothing ==
    (pc = "scanned" /\ ~RootIsDirectory /\ tree.fault.what = "none") =>
        runErr = NoErr /\ localFiles = <<>>

C21_Witness ==
    /\ ScanSucceeded
    /\ RootIsDirectory
    /\ tree.sep = "\\"
    /\ <<".h">> \in DOMAIN tree.kind /\ tree.kind[<<".h">>] = "dir"
    /\ <<".h", "a">> \in DOMAIN tree.kind /\ tree.kind[<<".h", "a">>] = "file"
    /\ <<"a", ".h">> \in DOMAIN tree.kind /\ tree.kind[<<"a", ".h">>] = "file"
    /\ <<"a", "a">> \in DOMAIN tree.kind /\ tree.kind[<<"a", "a">>] = "file"
    /\ <<"b">> \in DOMAIN tree.kind /\ tree.kind[<<"b">>] = "file"
    /\ Len(localFiles) = 2

\* C22: no file or directory beneath a hidden directory is handed to the
\* callback, and an I/O failure located beneath a hidden directory does not
\* make the scan fail
C22_HiddenSubtreesNotEntered ==
    pc = "scanned" =>
        /\ \A i \in DOMAIN visited :
              visited[i] # <<>> => ~HiddenPath(ParentOf(visited[i]))
        /\ (tree.fault.what # "none" /\ tree.fault.at # <<>>
               /\ HiddenPath(ParentOf(tree.fault.at))) => runErr = NoErr

\* C23: a scan that returns an error returns a manifest without entries
C23_FailedScanReturnsNothing ==
    ScanFailed => localFiles = <<>>

(***************************************************************************)
(* Properties of the credential store                                      *)
(***************************************************************************)
\* what GetHostCredentials returns for every host
LookupAll(hosts) == [h \in Hosts |-> GetHostCredentials(hosts, h)]

SameElsewhere(before, after, host) ==
    \A h \in Hosts \ {host} :
        GetHostCredentials(after, h) = GetHostCredentials(before, h)

C24_StoreStep ==
    LET op == storeOp'
        before == config.Hosts
        after == config'.Hosts
    IN  /\ op.op = "set" =>
              /\ GetHostCredentials(after, op.host) = [creds |-> op.creds, ok |-> TRUE]
              /\ SameElsewhere(before, after, op.host)
        /\ op.op = "delete" =>
              /\ ~GetHostCredentials(after, op.host).ok
              /\ SameElsewhere(before, after, op.host)
        /\ op.op = "get" =>
              /\ [creds |-> op.creds, ok |-> op.ok] = GetHostCredentials(before, op.host)
              /\ LookupAll(after) = LookupAll(before)
        /\ op.op = "save" => LookupAll(after) = LookupAll(before)
        /\ (op.op = "load" /\ storeOp.op = "save" /\ storeOp.err = "") =>
              /\ op.err = ""
              /\ after = before
        /\ (op.op = "load" /\ ~credFile.exists) =>
              /\ op.err = ""
              /\ after = EmptyHosts

\* C24: the credential store is a map from host to credentials under any
\* sequence of operations: a set makes the host's lookup return the
\* credentials set and a delete makes the host absent, neither changes
\* another host's lookup, a lookup or a save changes no lookup, a load
\* right after a successful save returns the map that was saved, and a load
\* without a file returns the empty map
C24_StoreIsPerHostMap == [][C24_StoreStep]_vars

\* a configuration with an entry of empty fields and one without a refresh
\* token, loaded back from the file it was saved to
C24_Witness ==
    /\ storeOp.op = "load"
    /\ storeOp.err = ""
    /\ credFile = FileOf(config.Hosts)
    /\ DOMAIN config.Hosts = Hosts
    /\ config.Hosts[ClientHost] = Cred("", "")
    /\ config.Hosts[OtherHost] = Cred("a2", "")

(***************************************************************************)
(* Properties of the remove-by-name commands                               *)
(***************************************************************************)
\* the DELETE operations in a request log
DeletesIn(log) == {i \in DOMAIN log : log[i].method = "DELETE"}

\* the names of a batch that the listing holds
Listed(b, i) == b.names[i] \in DOMAIN b.idOf

\* the loop has handled the name at position i
Processed(b, i) == i <= Len(b.out)

\* a pass over a name that is not listed
NotFoundStep ==
    /\ pc = "remove"
    /\ ~Listed(batch, batch.next)
    /\ batch'.next = batch.next + 1

C25_NotFoundHandled ==
    NotFoundStep =>
        /\ batch'.out = Append(batch.out, BatchLine(batch.names[batch.next], "NOT FOUND"))
        /\ reqlog' = reqlog
        /\ runErr' = NoErr
        /\ (batch.next < Len(batch.names)) => pc' = "remove"

\* a request of the log that is a DELETE
IsDelete(e) == e.method = "DELETE"

\* a line of the output that stands for a DELETE sent
IsDeleteLine(l) == l.result # "NOT FOUND"

\* the paths of the DELETE requests sent so far, in order
DeleteRequestPaths(log) ==
    LET d == SelectSeq(log, IsDelete) IN [i \in DOMAIN d |-> d[i].path]

\* the paths of the listed names the loop has handled so far, in order
ListedPaths(b) ==
    LET l == SelectSeq(b.out, IsDeleteLine)
    IN  [i \in DOMAIN l |-> ElementPath(b.kind, b.idOf[l[i].name])]

\* the loop prints one line per name handled, in the order of the command
\* line, and NOT FOUND for exactly the names that are not listed
LinesFollowNames ==
    \A i \in DOMAIN batch.out :
        /\ batch.out[i].name = batch.names[i]
        /\ batch.out[i].result = "NOT FOUND" <=> ~Listed(batch, i)

\* the loop has returned before the last name
EndedEarly ==
    /\ pc = "done"
    /\ batch.next > 0
    /\ Len(batch.out) < Len(batch.names)

\* the pass the loop returned from is one whose DELETE request failed
ReturnedFromFailedDelete ==
    /\ Len(batch.out) > 0
    /\ batch.out[Len(batch.out)].result = "FAILED"
    /\ Listed(batch, Len(batch.out))
    /\ runErr # NoErr

\* no pass over a name that is not listed is the last pass of a loop that
\* returned early: the names after it are taken up
NotFoundNeverEndsLoop ==
    /\ EndedEarly => ReturnedFromFailedDelete
    /\ \A i \in DOMAIN batch.out :
          (batch.out[i].result = "NOT FOUND" /\ i < Len(batch.names))
              => \/ Processed(batch, i + 1)
                 \/ pc = "remove" /\ batch.next = i + 1

\* C25: a name that is not in the listing is reported as not found, sends
\* no request and does not end the loop: its pass leaves the command running
\* at the next name with no error, the DELETE requests sent are exactly
\* those of the listed names handled, in order, whether or not a name that
\* is not listed precedes them, and a loop that returns before its last
\* name returns from the failed DELETE of a listed name, never from a name
\* that is not listed
C25_NotFoundDoesNotAbort ==
    [][/\ C25_NotFoundHandled
       /\ LinesFollowNames'
       /\ NotFoundNeverEndsLoop'
       /\ DeleteRequestPaths(reqlog') = ListedPaths(batch')]_vars

\* a batch in which a listed name follows a name that is not listed and is
\* deleted
LaterListedNameDeleted ==
    /\ Len(batch.out) >= 2
    /\ batch.out[1].result = "NOT FOUND"
    /\ batch.out[2].result = "OK"
    /\ Len(DeleteRequestPaths(reqlog)) = 1

\* a batch whose first name is not listed and whose later, listed name was
\* deleted
C25_Witness ==
    /\ pc = "done"
    /\ runErr = NoErr
    /\ Len(batch.out) = 3
    /\ batch.out[1].result = "NOT FOUND"
    /\ batch.out[2].result = "OK"
    /\ batch.out[3].result = "NOT FOUND"
    /\ Cardinality(DeletesIn(reqlog)) = 1

(***************************************************************************)
(* Properties of the transport without credentials                         *)
(***************************************************************************)
\* the store is readable and holds no usable access token for the host
NoAccessToken(file, host) ==
    /\ LoadGlobalConfig(file).err = ""
    /\ LET got == GetHostCredentials(LoadGlobalConfig(file).Hosts, host)
       IN  ~got.ok \/ got.creds.AccessToken = ""

\* C26: a request made while the store has no entry for the client's host,
\* or an entry with an empty access token, returns "not logged in", sends
\* no HTTP request, calls no provider and leaves the store and the
\* refresh-failed flag as they were; an upload does the same once it has
\* opened the local file
C26_NotLoggedInSendsNothing ==
    [][(NoAccessToken(credFile, ClientHost) /\ lastCall' # lastCall) =>
          /\ lastCall'.trace = <<>>
          /\ credFile' = credFile
          /\ refreshFailed' = refreshFailed
          /\ lastCall'.op = "doRequest" => lastCall'.err = ErrNotLoggedIn
          /\ lastCall'.op = "uploadFile" => lastCall'.err \in {ErrNotLoggedIn, ErrOpenFile}]_vars

\* a request refused for an entry that has a refresh token but no access
\* token
C26_Witness ==
    /\ lastCall.op = "doRequest"
    /\ lastCall.err = ErrNotLoggedIn
    /\ lastCall.trace = <<>>
    /\ GetHostCredentials(LoadGlobalConfig(credFile).Hosts, ClientHost).ok
    /\ LoadGlobalConfig(credFile).Hosts[ClientHost].AccessToken = ""
    /\ LoadGlobalConfig(credFile).Hosts[ClientHost].RefreshToken = "r1"

(***************************************************************************)
(* Properties of the size total                                            *)
(***************************************************************************)
\* the check made with the mathematical sum of the sizes
ExactCheck ==
    /\ calculateTotalSize(localFiles) = TotalSize(localFiles)
    /\ QuotaRejected <=> TotalSize(localFiles) > quota.MaxSpace

\* C27 as stated: for every list of non-negative sizes the total compared
\* against MaxSpace is the mathematical sum, and the outcome of the check
\* is the one the mathematical sum gives
C27_TotalIsExactSum == pc = "validated" => ExactCheck

\* C27 amended: the same for every list of non-negative sizes whose
\* mathematical sum is at most the largest int64
C27_TotalIsExactSumInRange ==
    (pc = "validated" /\ TotalSize(localFiles) <= MaxInt64) => ExactCheck

\* three sizes that add up to exactly the largest int64, accepted for a
\* MaxSpace of that value
C27_Witness ==
    /\ pc = "validated"
    /\ Len(localFiles) = 3
    /\ localFiles[1].Size = 3
    /\ TotalSize(localFiles) = MaxInt64
    /\ quota.MaxSpace = MaxInt64
    /\ runErr = NoErr

(***************************************************************************)
(* Properties of the remote store after and during a run                   *)
(***************************************************************************)
\* the fingerprint a store holds at a path, "" when it holds nothing there
StateAt(store, path) ==
    IF path \in PathsOf(store)
    THEN store[CHOOSE i \in DOMAIN store : store[i].Path = path].ETag
    ELSE ""

\* the run has returned nil
SyncSucceeded == pc = "done" /\ runErr = NoErr

\* the remote store mirrors the local manifest; remoteFiles is the store as
\* it was listed before the plan was made
Converged ==
    /\ \A i \in DOMAIN localFiles :
          StateAt(server, localFiles[i].Path) = localFiles[i].ETag
    /\ deleteRemote => PathsOf(server) = PathsOf(localFiles)
    /\ ~deleteRemote =>
          \A p \in RemoteOnlyPaths(localFiles, remoteFiles) :
              /\ p \in PathsOf(server)
              /\ StateAt(server, p) = StateAt(remoteFiles, p)

\* C28 as stated: after a run that returned nil the remote store mirrors
\* the local manifest
C28_SuccessfulRunConverges == SyncSucceeded => Converged

\* C28 amended: after a run without the dry-run flag that returned nil,
\* every local path is in the remote store with the local fingerprint;
\* with the delete flag the remote paths are the local paths, without it
\* every remote-only path is still there with the fingerprint it had
C28_SuccessfulRealRunConverges == (SyncSucceeded /\ ~dryRun) => Converged

\* a run that deleted, uploaded and returned nil
C28_Witness ==
    /\ SyncSucceeded
    /\ ~dryRun
    /\ deleteRemote
    /\ nDeleted >= 1
    /\ nUploaded >= 1
    /\ \E i \in DOMAIN localFiles :
          StateAt(remoteFiles, localFiles[i].Path) \notin {"", localFiles[i].ETag}

\* the plan has been made from the listing in remoteFiles
PlanMade == pc = "exec" \/ (pc = "done" /\ nDeleted + nUploaded > 0)

PlannedDeletes == {plan.ToDelete[i].Path : i \in DOMAIN plan.ToDelete}

PlannedUploads == {plan.ToUpload[i].Path : i \in DOMAIN plan.ToUpload}

\* the fingerprint the local manifest has for a path
LocalETag(path) ==
    localFiles[CHOOSE i \in DOMAIN localFiles : localFiles[i].Path = path].ETag

\* C29: from the moment the plan is executed, whether the execution goes
\* on, has ended or has failed part of the way, every remote path is as it
\* was listed before the run, or absent if the plan deletes it, or holds
\* the local fingerprint if the plan uploads it
C29_NoThirdState ==
    PlanMade =>
        \A p \in Paths :
            \/ StateAt(server, p) = StateAt(remoteFiles, p)
            \/ p \in PlannedDeletes /\ StateAt(server, p) = ""
            \/ p \in PlannedUploads /\ StateAt(server, p) = LocalETag(p)

\* an execution that failed after a deletion and an upload were applied
\* and before the last upload
C29_Witness ==
    /\ pc = "done"
    /\ runErr.msg = "failed to upload"
    /\ nDeleted >= 1
    /\ nUploaded >= 1
    /\ nUploaded < Len(plan.ToUpload)
    /\ \E p \in PlannedUploads : StateAt(server, p) # LocalETag(p)

(***************************************************************************)
(* Properties of the deletions                                             *)
(***************************************************************************)
\* the paths the remote listing names more than once
RepeatedPaths(files) ==
    {files[i].Path : i \in {k \in DOMAIN files :
                               \E j \in DOMAIN files : j # k /\ files[j].Path = files[k].Path}}

\* C30: no path of the local manifest is in the deletions of the plan, and
\* no DELETE of the run addresses a path of the local manifest, whatever
\* the flags are and also when the remote listing names a path twice
C30_LocalPathsNeverDeleted ==
    /\ \A i \in DOMAIN plan.ToDelete : plan.ToDelete[i].Path \notin PathsOf(localFiles)
    /\ \A i \in DeletesIn(reqlog) : reqlog[i].path \notin PathsOf(localFiles)

\* a run that sent a DELETE although the listing named a local path twice
C30_Witness ==
    /\ pc = "done"
    /\ DeletesIn(reqlog) # {}
    /\ RepeatedPaths(remoteFiles) \cap PathsOf(localFiles) # {}
    /\ \E i \in DOMAIN plan.ToUpload : plan.ToUpload[i].Path \in RepeatedPaths(remoteFiles)

(***************************************************************************)
(* Properties of the executor's footprint                                  *)
(***************************************************************************)
\* the entries of the request log that are remote operations of the executor
OperationsIn(log) == {i \in DOMAIN log : Mutation(log[i])}

\* the remote paths with no local file that the plan does not delete
LeftOutPaths == (PathsOf(remoteFiles) \ PathsOf(localFiles)) \ PlannedDeletes

\* C31: every DELETE of the run is for a path of plan.ToDelete and every PUT
\* for a path of plan.ToUpload, no planned entry is executed twice, and no
\* operation is for an unchanged path or a remote-only path left out of
\* the plan
C31_OnlyPlannedPathsTouched ==
    \A i \in OperationsIn(reqlog) :
        /\ reqlog[i].method = "DELETE" => reqlog[i].path \in PlannedDeletes
        /\ reqlog[i].method = "PUT" => reqlog[i].path \in PlannedUploads
        /\ \A j \in OperationsIn(reqlog) :
              (reqlog[j].method = reqlog[i].method /\ reqlog[j].path = reqlog[i].path)
                  => i = j
        /\ reqlog[i].path \notin UnchangedPaths
        /\ reqlog[i].path \notin LeftOutPaths

\* a run that ended well after an upload, with an unchanged file and a
\* remote-only path it did not delete
C31_Witness ==
    /\ pc = "done"
    /\ runErr = NoErr
    /\ OperationsIn(reqlog) # {}
    /\ nUploaded >= 1
    /\ UnchangedPaths # {}
    /\ LeftOutPaths # {}

(***************************************************************************)
(* Properties of the bearer tokens                                         *)
(***************************************************************************)
\* the access token the credential store holds for the client's host
StoredToken(file) ==
    GetHostCredentials(LoadGlobalConfig(file).Hosts, ClientHost).creds.AccessToken

\* the call made by this step sent a request, and sent it again after a refresh
Sent(call) == call.op # "none" /\ SendsOf(call.trace) # {}

Retried(call) == Sent(call) /\ Cardinality(SendsOf(call.trace)) = 2

\* the first attempt of the call this step makes carries the token that was
\* in the store before the step
FirstCarriesStored == Sent(lastCall') => FirstSend(lastCall'.trace).bearer = StoredToken(credFile)

\* the retried attempt carries the token in the store after the refresh
RetryCarriesRefreshed ==
    Retried(lastCall') =>
        /\ RefreshSucceeded(lastCall'.trace)
        /\ LastSend(lastCall'.trace).bearer = StoredToken(credFile')

\* C32 as stated: the first attempt carries the stored token, the retry the
\* token written by the refresh, and the retry never the token that was
\* rejected with 401
C32_RetryNeverRejectedToken ==
    [][/\ FirstCarriesStored
       /\ RetryCarriesRefreshed
       /\ Retried(lastCall') =>
             LastSend(lastCall'.trace).bearer # FirstSend(lastCall'.trace).bearer]_vars

\* C32: the first attempt of every transport request carries the access
\* token in the store when the call starts, and a retried request carries
\* the access token the preceding refresh wrote to the store, which is the
\* rejected token again only when the provider issued that token again
C32_BearerIsStoredToken == [][FirstCarriesStored /\ RetryCarriesRefreshed]_vars

\* an upload retried with a token other than the one rejected, and accepted
C32_Witness ==
    /\ lastCall.op = "uploadFile"
    /\ Retried(lastCall)
    /\ lastCall.status = 200
    /\ LastSend(lastCall.trace).bearer = StoredToken(credFile)
    /\ LastSend(lastCall.trace).bearer # FirstSend(lastCall.trace).bearer

(***************************************************************************)
(* Properties of commands sharing the credentials file                    *)
(***************************************************************************)
\* both commands have returned without an error
BothSucceeded == \A p \in ProcIds : procs[p].pc = "done" /\ procs[p].err = ""

\* C33: when the refresh of one host and the login or logout of another
\* have both returned, under every interleaving of their steps, the file
\* has for each host the entry its command meant it to have
C33_NoUpdateLost ==
    (procs # NoProcs /\ BothSucceeded) =>
        \A p \in ProcIds :
            GetHostCredentials(LoadGlobalConfig(credFile).Hosts, procs[p].host)
                = procs[p].want

\* both commands have written, the shorter encoding last: the file reads as
\* it did before either command, with the entry the logout removed and
\* without the refreshed tokens
StaleTailReadBack ==
    /\ procs # NoProcs /\ BothSucceeded
    /\ procs["other"].cmd = "logout"
    /\ SizeOf(credFile.lines) > SizeOf(EncodeLines(procs["other"].hosts))
    /\ credFile.ok
    /\ LoadGlobalConfig(credFile).Hosts
          = SetHostCredentials(SetHostCredentials(EmptyHosts, OtherHost, Cred("a1", "r1")),
                               ClientHost, Cred("a1", "r1"))

\* both commands have returned nil and the file they leave cannot be parsed
UnparseableFileLeft == procs # NoProcs /\ BothSucceeded /\ ~credFile.ok

(***************************************************************************)
(* Properties of the refresh's footprint in the store                      *)
(***************************************************************************)
\* the entries of the store held in a credentials file
StoreOf(file) == LoadGlobalConfig(file).Hosts

\* C34: a call whose refresh succeeded leaves the entry of every host other
\* than the client's as it was before the call
C34_RefreshKeepsOtherHosts ==
    [][(lastCall'.op # "none" /\ RefreshSucceeded(lastCall'.trace)) =>
           SameElsewhere(StoreOf(credFile), StoreOf(credFile'), ClientHost)]_vars

\* a refresh that replaced the client's entry in a store that holds another
\* host's credentials
C34_Witness ==
    /\ lastCall.op # "none"
    /\ RefreshSucceeded(lastCall.trace)
    /\ Cardinality(SendsOf(lastCall.trace)) = 2
    /\ GetHostCredentials(StoreOf(credFile), OtherHost) = [creds |-> OtherCred, ok |-> TRUE]
    /\ GetHostCredentials(StoreOf(credFile), ClientHost).creds.AccessToken
           = LastSend(lastCall.trace).bearer

(***************************************************************************)
(* Properties of logout                                                    *)
(***************************************************************************)
\* the logout run by this step found a store it could load
Ran(op, kind) == op.op = kind /\ LoadGlobalConfig(credFile).err = ""

\* a logout for a host that returned nil leaves no credentials for it, and
\* a logout of all hosts that returned nil leaves a store without credentials
RemovedWhenNil ==
    /\ (Ran(storeOp', "logout") /\ storeOp'.err = "") =>
           ~GetHostCredentials(StoreOf(credFile'), storeOp'.host).ok
    /\ (Ran(storeOp', "logout_all") /\ storeOp'.err = "") =>
           /\ LoadGlobalConfig(credFile').err = ""
           /\ DOMAIN StoreOf(credFile') = {}

\* a logout for a host without credentials does not write
NoEntryNoWrite ==
    (Ran(storeOp', "logout") /\ ~GetHostCredentials(StoreOf(credFile), storeOp'.host).ok) =>
        /\ ~storeOp'.ok
        /\ credFile' = credFile

\* C35: a logout for a host removes that host's credentials, a logout of
\* all hosts leaves the store without credentials, a logout for a host
\* without credentials does not write the store, and a logout for a host,
\* whether it returns nil or an error, leaves every other host's
\* credentials as they were
C35_LogoutRemovesExactly ==
    [][/\ RemovedWhenNil
       /\ NoEntryNoWrite
       /\ Ran(storeOp', "logout") =>
             SameElsewhere(StoreOf(credFile), StoreOf(credFile'), storeOp'.host)]_vars

\* the same with the other hosts looked at only after a logout that
\* returned nil
LogoutThatReturnedNilRemovesExactly ==
    [][/\ RemovedWhenNil
       /\ NoEntryNoWrite
       /\ (Ran(storeOp', "logout") /\ storeOp'.err = "") =>
             SameElsewhere(StoreOf(credFile), StoreOf(credFile'), storeOp'.host)]_vars

(***************************************************************************)
(* Properties of login                                                     *)
(***************************************************************************)
\* the token endpoint has answered with a token response the provider's
\* flow accepts: for Google one with an ID token
TokenAccepted(l) ==
    /\ l.answer = "token"
    /\ l.provider = "google" => l.token.access # ""

\* the errors the device flow ends with before anything is saved
FlowErrors == {ErrInitiate, ErrDeviceExpired, ErrAuthFailed, ErrNoIDToken}

\* a device code whose lifetime is 0 s or less is never polled for: the
\* flow waits at the loop's first test or has ended, with no answer taken
NeverPolledWhenExpiredAtOnce ==
    (login.pc # "code" /\ login.expiresAt <= 0) =>
        /\ login.pc \in {"poll", "done"}
        /\ login.answer = ""
        /\ login.err \in {"", ErrInitiate, ErrDeviceExpired}

\* C36: a step of the login command changes the credentials file only
\* after an accepted token response, in the save of step 5 or in the
\* verification that follows it; the steps before it and the step that ends
\* the flow with expiry, denial or another error leave the file as it is; a
\* device code that has expired at the loop's first test is never polled
\* for and leads to no save
C36_LoginWritesOnlyAfterToken ==
    [][/\ credFile' # credFile => (login.pc \in {"save", "verify"} /\ TokenAccepted(login))
       /\ login.pc \in {"code", "poll"} => credFile' = credFile
       /\ login'.err \in FlowErrors => credFile' = credFile
       /\ NeverPolledWhenExpiredAtOnce']_vars

\* a login whose device code had a lifetime of 0 s: the first test of the
\* loop ended it before any poll
ExpiredWithoutPolling ==
    /\ login.pc = "done"
    /\ login.err = ErrDeviceExpired
    /\ login.expiresAt = 0
    /\ login.answer = ""

\* a Google login that replaced the host's credentials with the tokens of
\* the response
C36_Witness ==
    /\ login.pc = "verify"
    /\ login.provider = "google"
    /\ GetHostCredentials(StoreOf(credFile), ClientHost)
           = [creds |-> Cred("a2", "r2"), ok |-> TRUE]

\* the way a pass of the polling loop leaves the loop
LoopEnding ==
    (login.pc = "poll" /\ login'.pc # "poll") =>
        \/ login'.pc = "save" /\ login'.answer = "token" /\ ~Expired(login)
        \/ /\ login'.pc = "done"
           /\ login'.err = ErrAuthFailed
           /\ login'.answer \in PollAnswers \ {"token", "authorization_pending", "slow_down"}
           /\ ~Expired(login)
        \/ /\ login'.pc = "done"
           /\ login'.err = ErrDeviceExpired
           /\ Expired(login)
           /\ login'.answer = login.answer

\* the poll interval from one pass of the loop to the next
IntervalStep ==
    /\ (login.pc = "poll" /\ login'.pc = "poll") =>
          /\ login'.now >= login.now + login'.interval
          /\ login'.interval = login.interval
                 + (IF login'.answer = "slow_down" THEN SlowDownStep ELSE 0)
    /\ login.pc = "poll" => login'.interval >= login.interval
    /\ login'.pc = "poll" => login'.interval >= MinPollInterval

\* C37: the polling loop is always left; it is left with a token response,
\* with an error after a denial or another fatal answer, or with the
\* "device code expired" error, without another poll, at the first test
\* that finds the lifetime of the code passed;
\* the poll interval is at least 5 s and changes only by growing 5 s on a
\* slow_down
C37_PollingTerminates ==
    /\ (login.pc = "poll") ~> (login.pc \in {"save", "done"})
    /\ [][LoopEnding /\ IntervalStep]_vars

\* a login that ended with the expiry error after a slow_down made the
\* interval grow
C37_Witness ==
    /\ login.pc = "done"
    /\ login.err = ErrDeviceExpired
    /\ login.answer = "slow_down"
    /\ login.interval > MinPollInterval + SlowDownStep
====
